---- MODULE Spec2Model ----
(***************************************************************************)
(* A model of the wynd-stake contract (contracts/wynd-stake): the staking  *)
(* ledger with unbonding-period buckets, the claim queue and the lazy      *)
(* fair-share reward distribution, together with the part of the           *)
(* cw20-vesting token ledger that moves the balances the contract reads.   *)
(*                                                                         *)
(* One step is one transaction: a command runs to completion, or it fails  *)
(* and every storage write it made is rolled back, which leaves the state  *)
(* as it was.  A handler is an operator of the state and the command's     *)
(* inputs that yields the error or the writes and the response messages,   *)
(* so what a command would answer in a state is read off the handler.      *)
(***************************************************************************)
EXTENDS Integers, Sequences, FiniteSets, TLC

VARIABLES
    config,              \* CONFIG: cw20_contract, tokens_per_power, min_bond, unbonding_periods
    stake_config,        \* STAKE_CONFIG: period -> [voting, reward, staked]
    stake,               \* STAKE: account -> period -> BondingInfo
    claims,              \* CLAIMS: account -> sequence of [amount, release_at]
    members,             \* MEMBERS (current value): map account -> power
    members_changelog,   \* MEMBERS changelog: account -> map height -> optional old power
    total_votes,         \* TOTAL_VOTES (current value)
    total_votes_changelog, \* TOTAL_VOTES changelog: map height -> optional old total
    rewards,             \* REWARDS: map account -> reward power
    total_rewards,       \* TOTAL_REWARDS: Absent until first saved
    total_staked,        \* TOTAL_STAKED: TokenInfo [staked, unbonding]
    distribution,        \* DISTRIBUTION
    withdraw_adjustment, \* WITHDRAW_ADJUSTMENT: map account -> WithdrawAdjustment
    hooks,               \* HOOKS: Absent until first saved, then the observers in registration order
    admin,               \* ADMIN: the admin's address, or None
    balances,            \* cw20-vesting BALANCES: address -> tokens
    delegated,           \* cw20-vesting DELEGATED: map address -> tokens
    staking,             \* cw20-vesting STAKING: None until a staking address is registered
    vesting,             \* cw20-vesting VESTING: map address -> Curve
    token_info,          \* cw20-vesting TOKEN_INFO: total_supply and the optional mint [minter, cap]
    allowlist,           \* cw20-vesting ALLOWLIST: the addresses that may send vesting tokens
    allowances,          \* cw20-vesting ALLOWANCES: map <<owner, spender>> -> [allowance, expires]
    max_vesting_complexity, \* cw20-vesting MAX_VESTING_COMPLEXITY
    pool_u128,           \* a reward pool of u128 amounts, or NoPoolU128
    now,                 \* env.block.time, in seconds
    height               \* env.block.height

\* the storage of the two contracts and the block
ledger_vars == <<config, stake_config, stake, claims, members, total_votes, rewards,
                 total_rewards, total_staked, distribution, withdraw_adjustment, hooks,
                 admin, balances, delegated, now, height, members_changelog,
                 total_votes_changelog, staking, vesting, token_info, allowlist,
                 allowances, max_vesting_complexity>>

vars == <<ledger_vars, pool_u128>>

(***************************************************************************)
(* Addresses.                                                              *)
(***************************************************************************)
\* an absent optional address
None == "none"

\* an optional value: the empty sequence, or the value alone in a sequence
Absent == <<>>

Some(v) == <<v>>

\* maps (cw-storage-plus Map): functions whose domain is the set of stored keys
Get(map, key, default) == IF key \in DOMAIN map THEN map[key] ELSE default

Put(map, key, value) == [k \in DOMAIN map \cup {key} |-> IF k = key THEN value ELSE map[k]]

Remove(map, key) == [k \in DOMAIN map \ {key} |-> map[k]]

EmptyMap == [k \in {} |-> 0]

Accounts == {"a1", "a2", "a3"}

Cw20Contract == "cw20"

StakingContract == "staking"

AdminAddr == "admin"

\* the token ledger's minter (TOKEN_INFO.mint.minter)
Minter == "minter"

(***************************************************************************)
(* Bounds of the checked instances.                                        *)
(***************************************************************************)
MaxTime == 3

Wallet == 2

MaxFunded == 2

MaxPool == 3

MaxHeight == 3

MaxBuckets == 2

MaxAllowance == 2

(***************************************************************************)
(* Sequences.                                                              *)
(***************************************************************************)
RECURSIVE SumSeq(_)
SumSeq(s) == IF s = <<>> THEN 0 ELSE Head(s) + SumSeq(Tail(s))

InsertAt(s, i, e) == SubSeq(s, 1, i - 1) \o <<e>> \o SubSeq(s, i, Len(s))

Range(s) == {s[i] : i \in DOMAIN s}

(***************************************************************************)
(* Decimal multipliers are held in hundredths (Decimal::percent); the      *)
(* product Uint128 * Decimal floors.                                       *)
(***************************************************************************)
DecimalOne == 10 ^ 2

MulDecimal(amount, multiplier) == (amount * multiplier) \div DecimalOne

(***************************************************************************)
(* 128-bit quantities that carry SHARES_SHIFT fractional bits              *)
(* (shares_per_point, shares_correction, points) are held as               *)
(* w * 2^32 + h * 2^16 + l  with limbs 0 <= h, l < 2^16 and w the          *)
(* (signed) whole part: TLC's integers are 32 bits wide, the program's 128.*)
(***************************************************************************)
SHARES_SHIFT == 32

LimbBase == 2 ^ (SHARES_SHIFT \div 2)

FxNorm(w, h, l) ==
    LET hh == h + (l \div LimbBase)
    IN  [w |-> w + (hh \div LimbBase), h |-> hh % LimbBase, l |-> l % LimbBase]

FxZero == [w |-> 0, h |-> 0, l |-> 0]

FxAdd(x, y) == FxNorm(x.w + y.w, x.h + y.h, x.l + y.l)

FxSub(x, y) == FxNorm(x.w - y.w, x.h - y.h, x.l - y.l)

\* x * k for an integer k of either sign, |k| < 2^15
FxMulInt(x, k) == FxNorm(x.w * k, x.h * k, x.l * k)

\* faulty variant: the leftover of the previous distribution is dropped
FxShlAdd_no_leftover(amount, leftover) == FxNorm(amount, 0, 0)

\* (amount << SHARES_SHIFT) + leftover
FxShlAdd(amount, leftover) == FxNorm(amount, 0, leftover)

\* faulty variant: the quotient is rounded up
FxDivMod_rounded_up(x, d) ==
    LET t1 == (x.w % d) * LimbBase + x.h
        t2 == (t1 % d) * LimbBase + x.l
    IN  [q |-> FxNorm(x.w \div d, t1 \div d, (t2 \div d) + 1), r |-> t2 % d]

\* x / d and x % d for x >= 0 and 0 < d < 2^15, by long division
FxDivMod(x, d) ==
    LET t1 == (x.w % d) * LimbBase + x.h
        t2 == (t1 % d) * LimbBase + x.l
    IN  [q |-> [w |-> x.w \div d, h |-> t1 \div d, l |-> t2 \div d], r |-> t2 % d]

FxNonNeg(x) == x.w >= 0

(***************************************************************************)
(* Amounts beyond TLC's integers: a u128 is held as its bytes, lowest      *)
(* first, in WideLen bytes, which also hold the product of an amount and a *)
(* reward power.                                                           *)
(***************************************************************************)
Byte == 2 ^ 8

WideLen == 21

\* the one element of a singleton set
Only(S) == CHOOSE v \in S : TRUE

\* the bytes lo .. hi of the sum of s[i] * Byte^(i-1), with the carry c into
\* byte lo, and the carry out of byte hi
RECURSIVE WCarry(_, _, _, _)
WCarry(s, lo, hi, c) ==
    IF lo = hi
    THEN Only({[bytes |-> <<t % Byte>>, carry |-> t \div Byte] : t \in {s[lo] + c}})
    ELSE Only({Only({[bytes |-> low.bytes \o high.bytes, carry |-> high.carry]
                     : high \in {WCarry(s, ((lo + hi) \div 2) + 1, hi, low.carry)}})
               : low \in {WCarry(s, lo, (lo + hi) \div 2, c)}})

\* a number from its byte sums, modulo Byte^WideLen
WNorm(s) == Only({WCarry(t, 1, WideLen, 0).bytes : t \in {s}})

WZero == WNorm([i \in 1 .. WideLen |-> 0])

\* a TLC integer n >= 0
ToWide(n) == WNorm([i \in 1 .. WideLen |-> IF i = 1 THEN n ELSE 0])

\* 2^e
Pow2(e) == WNorm([i \in 1 .. WideLen |-> IF i = (e \div 8) + 1 THEN 2 ^ (e % 8) ELSE 0])

WAdd(x, y) ==
    Only({WNorm([i \in 1 .. WideLen |-> a[i] + b[i]]) : a \in {x}, b \in {y}})

\* x - y for x >= y
WSub(x, y) ==
    Only({WNorm([i \in 1 .. WideLen |-> a[i] - b[i]]) : a \in {x}, b \in {y}})

\* the sum of a[j] * b[k - j + 1] over the bytes j >= i of a that meet a byte
\* of b
RECURSIVE WDot(_, _, _, _)
WDot(a, b, k, i) ==
    IF i > k \/ i > WideLen THEN 0 ELSE a[i] * b[k - i + 1] + WDot(a, b, k, i + 1)

\* x * y in full, in 2 * WideLen bytes
WProduct(x, y) ==
    Only({WCarry(sums, 1, 2 * WideLen, 0).bytes
          : sums \in {Only({[k \in 1 .. 2 * WideLen |->
                                WDot(a, b, k, IF k > WideLen THEN k - WideLen + 1 ELSE 1)]
                            : a \in {x}, b \in {y}})}})

\* x * y modulo Byte^WideLen
WMul(x, y) == Only({SubSeq(p, 1, WideLen) : p \in {WProduct(x, y)}})

RECURSIVE WCmp(_, _, _)
WCmp(a, b, i) ==
    IF i = 0 THEN 0
    ELSE IF a[i] < b[i] THEN -1
    ELSE IF a[i] > b[i] THEN 1
    ELSE WCmp(a, b, i - 1)

WLeq(x, y) == \E a \in {x}, b \in {y} : WCmp(a, b, WideLen) <= 0

WLess(x, y) == \E a \in {x}, b \in {y} : WCmp(a, b, WideLen) < 0

\* x << SHARES_SHIFT and x >> SHARES_SHIFT
WShl(x) ==
    Only({WNorm([i \in 1 .. WideLen |->
                    IF i <= SHARES_SHIFT \div 8 THEN 0 ELSE a[i - SHARES_SHIFT \div 8]])
          : a \in {x}})

WShr(x) ==
    Only({WNorm([i \in 1 .. WideLen |->
                    IF i + SHARES_SHIFT \div 8 <= WideLen THEN a[i + SHARES_SHIFT \div 8]
                    ELSE 0])
          : a \in {x}})

\* the low `bytes` bytes of x
WTrunc(x, bytes) ==
    Only({WNorm([i \in 1 .. WideLen |-> IF i <= bytes THEN a[i] ELSE 0]) : a \in {x}})

\* 2 * x + bit
WDouble(x, bit) ==
    Only({WNorm([i \in 1 .. WideLen |-> 2 * a[i] + (IF i = 1 THEN bit ELSE 0)])
          : a \in {x}})

\* one step of binary long division: the next bit of the dividend enters the
\* remainder r, and q collects the bits of a byte of the quotient
WDivBit(acc, d, bit) ==
    Only({IF WLeq(d, r2) THEN [q |-> 2 * e.q + 1, r |-> WSub(r2, d)]
          ELSE [q |-> 2 * e.q, r |-> r2]
          : e \in {acc}, r2 \in {WDouble(acc.r, bit)}})

\* the bits hi .. lo of a byte of the dividend, highest first
RECURSIVE WDivBits(_, _, _, _, _)
WDivBits(acc, d, byte, hi, lo) ==
    IF hi = lo THEN WDivBit(acc, d, (byte \div (2 ^ hi)) % 2)
    ELSE Only({WDivBits(upper, d, byte, (hi + lo) \div 2, lo)
               : upper \in {WDivBits(acc, d, byte, hi, ((hi + lo) \div 2) + 1)}})

\* the bytes hi .. lo of the dividend x, highest first, with the remainder r
\* of the bytes above them
RECURSIVE WDivBytes(_, _, _, _, _)
WDivBytes(r, x, d, hi, lo) ==
    IF hi = lo
    THEN Only({[q |-> <<t.q>>, r |-> t.r]
               : t \in {WDivBits([q |-> 0, r |-> r], d, x[hi], 7, 0)}})
    ELSE Only({Only({[q |-> lower.q \o upper.q, r |-> lower.r]
                     : lower \in {WDivBytes(upper.r, x, d, (hi + lo) \div 2, lo)}})
               : upper \in {WDivBytes(r, x, d, hi, ((hi + lo) \div 2) + 1)}})

\* x / d and x % d for d > 0, by binary long division
WDivMod(x, d) == Only({WDivBytes(WZero, a, b, WideLen, 1) : a \in {x}, b \in {d}})

\* a u128 and a u64 in bytes
U128Len == 128 \div 8

U64Len == 64 \div 8

FitsU128(x) == WTrunc(x, U128Len) = x

\* The arithmetic of the primitive u128 on values that fit a u128.  A result
\* that leaves the u128 panics in a build with overflow checks and wraps
\* modulo 2^128 in a build without them: `checks` tells the build.
\* [panic, value].
NoPanic(x) == [panic |-> FALSE, value |-> x]

PanicU128 == [panic |-> TRUE, value |-> WZero]

AddU128(x, y, checks) ==
    Only({IF FitsU128(s) THEN NoPanic(s)
          ELSE IF checks THEN PanicU128
          ELSE NoPanic(WTrunc(s, U128Len))
          : s \in {WAdd(x, y)}})

SubU128(x, y, checks) ==
    IF WLeq(y, x) THEN NoPanic(WSub(x, y))
    ELSE IF checks THEN PanicU128
    ELSE NoPanic(WTrunc(WSub(x, y), U128Len))

MulU128(x, y, checks) ==
    Only({IF \A i \in U128Len + 1 .. 2 * WideLen : p[i] = 0
          THEN NoPanic(SubSeq(p, 1, WideLen))
          ELSE IF checks THEN PanicU128
          ELSE NoPanic(WTrunc(SubSeq(p, 1, WideLen), U128Len))
          : p \in {WProduct(x, y)}})

\* x << SHARES_SHIFT on a u128: the bits shifted out are lost in every build
ShlU128(x) == WTrunc(WShl(x), U128Len)

\* the accounts of a reward pool of u128 amounts
HoldersU128 == {"a1", "a2"}

\* no such pool: the specifications of the ledger leave pool_u128 at this
NoPoolU128 ==
    [rewards |-> [a \in HoldersU128 |-> WZero], total_rewards |-> WZero,
     distribution |-> [shares_per_point |-> WZero, shares_leftover |-> WZero,
                       distributed_total |-> WZero, withdrawable_total |-> WZero],
     withdrawn_rewards |-> [a \in HoldersU128 |-> WZero], funds |-> <<>>,
     overflow_checks |-> FALSE]

(***************************************************************************)
(* BondingInfo (state.rs).                                                 *)
(***************************************************************************)
DefaultBondingInfo == [stake |-> 0, votes |-> 0, rewards |-> 0, locked_tokens |-> <<>>]

\* the order of (Timestamp, Uint128) tuples
TupleLess(x, y) == x[1] < y[1] \/ (x[1] = y[1] /\ x[2] < y[2])

IsSorted(s) == \A i, j \in DOMAIN s : i < j => ~TupleLess(s[j], s[i])

\* slice::binary_search, as the standard library specifies it: the results
\* any build may give, with 0-based positions.  On a sorted slice that holds
\* the value, Ok(pos) for any one of the matching positions; on a sorted slice
\* that does not, Err(pos) with the position that keeps the order.  On a slice
\* that is not sorted the result is unspecified: Ok(pos) only for a position
\* that holds the value, or Err(pos) for any position.
binary_search(s, x) ==
    LET matches == {i \in DOMAIN s : s[i] = x}
        smaller == {i \in DOMAIN s : TupleLess(s[i], x)}
    IN  IF IsSorted(s)
        THEN IF matches # {}
             THEN {[found |-> TRUE, pos |-> i - 1] : i \in matches}
             ELSE {[found |-> FALSE, pos |-> Cardinality(smaller)]}
        ELSE {[found |-> TRUE, pos |-> i - 1] : i \in matches}
             \cup {[found |-> FALSE, pos |-> p] : p \in 0 .. Len(s)}

\* faulty variant: the bonded amount is not added to the free stake
add_unlocked_tokens_dropped(info, amount) == info

add_unlocked_tokens(info, amount) == [info EXCEPT !.stake = @ + amount]

\* faulty variant: the amount is credited as free stake, without a lock
add_locked_tokens_unlocked(info, expires, amount) == {[info EXCEPT !.stake = @ + amount]}

\* the BondingInfo after each result the search may give
add_locked_tokens(info, expires, amount) ==
    {IF r.found
     THEN [info EXCEPT !.locked_tokens[r.pos + 1] = <<@[1], @[2] + amount>>]
     ELSE [info EXCEPT !.locked_tokens = InsertAt(@, r.pos + 1, <<expires, amount>>)] :
        r \in binary_search(info.locked_tokens, <<expires, amount>>)}

\* faulty variant: every lock is freed, matured or not
free_unlocked_tokens_all(info, time) ==
    [info EXCEPT !.locked_tokens = <<>>,
                 !.stake = @ + SumSeq([i \in DOMAIN info.locked_tokens |->
                                          info.locked_tokens[i][2]])]

free_unlocked_tokens(info, time) ==
    LET unlocked == SelectSeq(info.locked_tokens, LAMBDA e : e[1] <= time)
        remaining == SelectSeq(info.locked_tokens, LAMBDA e : ~(e[1] <= time))
    IN  IF info.locked_tokens = <<>> THEN info
        ELSE [info EXCEPT !.locked_tokens = remaining,
                          !.stake = @ + SumSeq([i \in DOMAIN unlocked |-> unlocked[i][2]])]

\* faulty variant: matured locks are not freed before the subtraction
release_stake_unfreed(info, time, amount) ==
    IF info.stake < amount THEN [ok |-> FALSE, info |-> info]
    ELSE [ok |-> TRUE, info |-> [info EXCEPT !.stake = @ - amount]]

\* [ok, info]: the matured locks are freed, then ok is FALSE when checked_sub
\* overflows, and the record keeps the freed locks in its stake
release_stake(info, time, amount) ==
    LET freed == free_unlocked_tokens(info, time)
    IN  IF freed.stake < amount THEN [ok |-> FALSE, info |-> freed]
        ELSE [ok |-> TRUE, info |-> [freed EXCEPT !.stake = @ - amount]]

total_locked(info, time) ==
    LET l == SelectSeq(info.locked_tokens, LAMBDA e : e[1] > time)
    IN  SumSeq([i \in DOMAIN l |-> l[i][2]])

total_unlocked(info, time) ==
    LET u == SelectSeq(info.locked_tokens, LAMBDA e : e[1] <= time)
    IN  info.stake + SumSeq([i \in DOMAIN u |-> u[i][2]])

total_stake(info) ==
    info.stake + SumSeq([i \in DOMAIN info.locked_tokens |-> info.locked_tokens[i][2]])

(***************************************************************************)
(* Power of a stake (contract.rs).                                         *)
(***************************************************************************)
\* faulty variant: no min_bond cut-off
calc_power_no_cutoff(cfg, amount, multiplier) ==
    MulDecimal(amount, multiplier) \div cfg.tokens_per_power

\* faulty variant: the min_bond cut-off is applied to the power
calc_power_cutoff_on_power(cfg, amount, multiplier) ==
    LET power == MulDecimal(amount, multiplier) \div cfg.tokens_per_power
    IN  IF power < cfg.min_bond THEN 0 ELSE power

calc_power(cfg, amount, multiplier) ==
    IF amount < cfg.min_bond THEN 0
    ELSE MulDecimal(amount, multiplier) \div cfg.tokens_per_power

\* Option::unwrap_or_default
OrZero(opt) == IF opt = Absent THEN 0 ELSE opt[1]

\* Map::may_load
MayLoad(map, key) == IF key \in DOMAIN map THEN Some(map[key]) ELSE Absent

Err(e) == [err |-> e]

\* Hooks::query_hooks and prepare_hooks (cw-controllers): the list of
\* observers, empty while HOOKS has not been saved
query_hooks == IF hooks = Absent THEN <<>> ELSE hooks[1]

\* ContractError::NoUnbondingPeriodFound(period)
NoUnbondingPeriodFound(period) == [err |-> "NoUnbondingPeriodFound", period |-> period]

(***************************************************************************)
(* Snapshots (cw-storage-plus, Strategy::EveryBlock).  The changelog of a  *)
(* key maps a height to the value the key had before its first write at    *)
(* that height.                                                            *)
(***************************************************************************)
\* faulty variant: every write at a height replaces the logged old value
write_change_every(changelog, h, old) == Put(changelog, h, old)

\* Snapshot::write_change: only the first write at a height is logged
write_change(changelog, h, old) ==
    IF h \in DOMAIN changelog THEN changelog ELSE Put(changelog, h, old)

\* faulty variant: the entry of the queried height itself is passed over
may_load_at_height_exclusive(changelog, current, h) ==
    LET later == {g \in DOMAIN changelog : g > h}
    IN  IF later = {} THEN current
        ELSE changelog[CHOOSE g \in later : \A g2 \in later : g <= g2]

\* SnapshotMap::may_load_at_height: the old value of the first changelog
\* entry at or after the height, or else the current value
may_load_at_height(changelog, current, h) ==
    LET later == {g \in DOMAIN changelog : g >= h}
    IN  IF later = {} THEN current
        ELSE changelog[CHOOSE g \in later : \A g2 \in later : g <= g2]

(***************************************************************************)
(* update_membership: the writes to MEMBERS and TOTAL_VOTES and the hook   *)
(* messages, for votes changing from old_votes to new_votes (sequences).   *)
(***************************************************************************)
MemberChangedHookMsg(hook, key, old, new) ==
    [type |-> "MemberChangedHook", to |-> hook,
     diffs |-> <<[key |-> key, old |-> old, new |-> new]>>]

\* faulty variant: the account's power is recorded but the total is left alone
update_membership_total_kept(sender, old_votes, new_votes) ==
    LET old_voting_power == SumSeq(old_votes)
        new_voting_power == SumSeq(new_votes)
        old_total_power == MayLoad(members, sender)
        new_total_power == OrZero(old_total_power) + new_voting_power - old_voting_power
        new_hook == IF new_total_power = 0 THEN Absent ELSE Some(new_total_power)
    IN  IF new_voting_power = old_voting_power
        THEN [err |-> "", members |-> members, total_votes |-> total_votes,
              members_changelog |-> members_changelog,
              total_votes_changelog |-> total_votes_changelog, msgs |-> <<>>]
        ELSE IF new_total_power < 0 THEN Err("Panic")
        ELSE [err |-> "",
              members |-> IF new_total_power = 0 THEN Remove(members, sender)
                          ELSE Put(members, sender, new_total_power),
              total_votes |-> total_votes,
              members_changelog |-> [members_changelog EXCEPT
                  ![sender] = write_change(@, height, old_total_power)],
              total_votes_changelog |->
                  write_change(total_votes_changelog, height, Some(total_votes)),
              msgs |-> [i \in DOMAIN query_hooks |->
                          MemberChangedHookMsg(query_hooks[i], sender, old_total_power,
                                               new_hook)]]

\* faulty variant: a power of zero is saved instead of removing the member
update_membership_zero_kept(sender, old_votes, new_votes) ==
    LET old_voting_power == SumSeq(old_votes)
        new_voting_power == SumSeq(new_votes)
        old_total_power == MayLoad(members, sender)
        new_total_power == OrZero(old_total_power) + new_voting_power - old_voting_power
        new_hook == IF new_total_power = 0 THEN Absent ELSE Some(new_total_power)
        new_total == total_votes + new_voting_power - old_voting_power
    IN  IF new_voting_power = old_voting_power
        THEN [err |-> "", members |-> members, total_votes |-> total_votes,
              members_changelog |-> members_changelog,
              total_votes_changelog |-> total_votes_changelog, msgs |-> <<>>]
        ELSE IF new_total_power < 0 \/ new_total < 0 THEN Err("Panic")
        ELSE [err |-> "",
              members |-> Put(members, sender, new_total_power),
              total_votes |-> new_total,
              members_changelog |-> [members_changelog EXCEPT
                  ![sender] = write_change(@, height, old_total_power)],
              total_votes_changelog |->
                  write_change(total_votes_changelog, height, Some(total_votes)),
              msgs |-> [i \in DOMAIN query_hooks |->
                          MemberChangedHookMsg(query_hooks[i], sender, old_total_power,
                                               new_hook)]]

\* faulty variant: the observers are told also when the power did not change
update_membership_always_notifies(sender, old_votes, new_votes) ==
    LET old_voting_power == SumSeq(old_votes)
        new_voting_power == SumSeq(new_votes)
        old_total_power == MayLoad(members, sender)
        new_total_power == OrZero(old_total_power) + new_voting_power - old_voting_power
        new_hook == IF new_total_power = 0 THEN Absent ELSE Some(new_total_power)
        new_total == total_votes + new_voting_power - old_voting_power
    IN  IF new_total_power < 0 \/ new_total < 0 THEN Err("Panic")
        ELSE [err |-> "",
              members |-> IF new_total_power = 0 THEN Remove(members, sender)
                          ELSE Put(members, sender, new_total_power),
              total_votes |-> new_total,
              members_changelog |-> [members_changelog EXCEPT
                  ![sender] = write_change(@, height, old_total_power)],
              total_votes_changelog |->
                  write_change(total_votes_changelog, height, Some(total_votes)),
              msgs |-> [i \in DOMAIN query_hooks |->
                          MemberChangedHookMsg(query_hooks[i], sender, old_total_power,
                                               new_hook)]]

\* faulty variant: only the first of the changed buckets is looked at
update_membership_first_only(sender, old_votes, new_votes) ==
    LET old_voting_power == old_votes[1]
        new_voting_power == new_votes[1]
        old_total_power == MayLoad(members, sender)
        new_total_power == OrZero(old_total_power) + new_voting_power - old_voting_power
        new_hook == IF new_total_power = 0 THEN Absent ELSE Some(new_total_power)
        new_total == total_votes + new_voting_power - old_voting_power
    IN  IF new_voting_power = old_voting_power
        THEN [err |-> "", members |-> members, total_votes |-> total_votes,
              members_changelog |-> members_changelog,
              total_votes_changelog |-> total_votes_changelog, msgs |-> <<>>]
        ELSE IF new_total_power < 0 \/ new_total < 0 THEN Err("Panic")
        ELSE [err |-> "",
              members |-> IF new_total_power = 0 THEN Remove(members, sender)
                          ELSE Put(members, sender, new_total_power),
              total_votes |-> new_total,
              members_changelog |-> [members_changelog EXCEPT
                  ![sender] = write_change(@, height, old_total_power)],
              total_votes_changelog |->
                  write_change(total_votes_changelog, height, Some(total_votes)),
              msgs |-> [i \in DOMAIN query_hooks |->
                          MemberChangedHookMsg(query_hooks[i], sender, old_total_power,
                                               new_hook)]]

update_membership(sender, old_votes, new_votes) ==
    LET old_voting_power == SumSeq(old_votes)
        new_voting_power == SumSeq(new_votes)
        old_total_power == MayLoad(members, sender)
        new_total_power == OrZero(old_total_power) + new_voting_power - old_voting_power
        new_hook == IF new_total_power = 0 THEN Absent ELSE Some(new_total_power)
        new_total == total_votes + new_voting_power - old_voting_power
    IN  IF new_voting_power = old_voting_power
        THEN [err |-> "", members |-> members, total_votes |-> total_votes,
              members_changelog |-> members_changelog,
              total_votes_changelog |-> total_votes_changelog, msgs |-> <<>>]
        ELSE IF new_total_power < 0 \/ new_total < 0 THEN Err("Panic")
        ELSE [err |-> "",
              members |-> IF new_total_power = 0 THEN Remove(members, sender)
                          ELSE Put(members, sender, new_total_power),
              total_votes |-> new_total,
              members_changelog |-> [members_changelog EXCEPT
                  ![sender] = write_change(@, height, old_total_power)],
              total_votes_changelog |->
                  write_change(total_votes_changelog, height, Some(total_votes)),
              msgs |-> [i \in DOMAIN query_hooks |->
                          MemberChangedHookMsg(query_hooks[i], sender, old_total_power,
                                               new_hook)]]

(***************************************************************************)
(* Reward bookkeeping (distribution.rs, contract.rs).                      *)
(***************************************************************************)
DefaultAdjustment(addr) ==
    [shares_correction |-> FxZero, withdrawn_rewards |-> 0, delegated |-> addr]

\* faulty variant: the record is created but no correction is applied
apply_points_correction_none(adjustments, addr, shares_per_point, diff) ==
    Put(adjustments, addr, Get(adjustments, addr, DefaultAdjustment(addr)))

\* faulty variant: the correction is applied with the opposite sign
apply_points_correction_added(adjustments, addr, shares_per_point, diff) ==
    LET old == Get(adjustments, addr, DefaultAdjustment(addr))
    IN  Put(adjustments, addr,
            [old EXCEPT !.shares_correction = FxAdd(@, FxMulInt(shares_per_point, diff))])

apply_points_correction(adjustments, addr, shares_per_point, diff) ==
    LET old == Get(adjustments, addr, DefaultAdjustment(addr))
    IN  Put(adjustments, addr,
            [old EXCEPT !.shares_correction = FxSub(@, FxMulInt(shares_per_point, diff))])

\* faulty variant: the entry is removed whenever the touched buckets' new
\* rewards are zero, whatever the other buckets hold
update_rewards_removes(sender, old_rewards, new_rewards) ==
    LET old_reward_power == SumSeq(old_rewards)
        new_reward_power == SumSeq(new_rewards)
        old_total_power == Get(rewards, sender, 0)
        new_total_power == old_total_power + new_reward_power - old_reward_power
        new_total == OrZero(total_rewards) + new_reward_power - old_reward_power
    IN  IF old_reward_power = new_reward_power
        THEN [err |-> "", rewards |-> rewards, total_rewards |-> total_rewards,
              withdraw_adjustment |-> withdraw_adjustment]
        ELSE IF ~(new_reward_power = 0) /\ new_total_power < 0
        THEN Err("Panic")
        ELSE IF new_total < 0 THEN Err("Panic")
        ELSE [err |-> "",
              rewards |-> IF new_reward_power = 0
                          THEN Remove(rewards, sender)
                          ELSE Put(rewards, sender, new_total_power),
              total_rewards |-> Some(new_total),
              withdraw_adjustment |->
                  apply_points_correction(withdraw_adjustment, sender,
                      distribution.shares_per_point,
                      new_reward_power - old_reward_power)]

update_rewards(sender, old_rewards, new_rewards) ==
    LET old_reward_power == SumSeq(old_rewards)
        new_reward_power == SumSeq(new_rewards)
        old_total_power == Get(rewards, sender, 0)
        new_total_power == old_total_power + new_reward_power - old_reward_power
        new_total == OrZero(total_rewards) + new_reward_power - old_reward_power
    IN  IF old_reward_power = new_reward_power
        THEN [err |-> "", rewards |-> rewards, total_rewards |-> total_rewards,
              withdraw_adjustment |-> withdraw_adjustment]
        ELSE IF ~(new_reward_power = 0 /\ old_total_power = old_reward_power)
                /\ new_total_power < 0
        THEN Err("Panic")
        ELSE IF new_total < 0 THEN Err("Panic")
        ELSE [err |-> "",
              rewards |-> IF new_reward_power = 0 /\ old_total_power = old_reward_power
                          THEN Remove(rewards, sender)
                          ELSE Put(rewards, sender, new_total_power),
              total_rewards |-> Some(new_total),
              withdraw_adjustment |->
                  apply_points_correction(withdraw_adjustment, sender,
                      distribution.shares_per_point,
                      new_reward_power - old_reward_power)]

\* points = shares_per_point * reward power + shares_correction
reward_points(owner, distr, adjustment) ==
    FxAdd(FxMulInt(distr.shares_per_point, Get(rewards, owner, 0)),
          adjustment.shares_correction)

\* faulty variant: what was withdrawn before is not subtracted
withdrawable_rewards_gross(owner, distr, adjustment) ==
    LET points == reward_points(owner, distr, adjustment)
    IN  IF ~FxNonNeg(points) THEN [wrapped |-> TRUE, amount |-> 0]
        ELSE [wrapped |-> FALSE, amount |-> points.w]

\* [wrapped, amount]: wrapped when the cast of negative points to u128, or the
\* subtraction of withdrawn_rewards, leaves the range of the signed arithmetic
withdrawable_rewards(owner, distr, adjustment) ==
    LET points == reward_points(owner, distr, adjustment)
        withdrawn == adjustment.withdrawn_rewards
    IN  IF ~FxNonNeg(points) \/ points.w < withdrawn
        THEN [wrapped |-> TRUE, amount |-> 0]
        ELSE [wrapped |-> FALSE, amount |-> points.w - withdrawn]

(***************************************************************************)
(* The handlers.  Each yields the storage items it writes (as their new     *)
(* values) and the messages of its response, or an error e # "" together   *)
(* with the items written before the error; RunCommand commits the writes  *)
(* of a success and rolls back those of a failure.  execute_rebond yields  *)
(* the set of its possible answers, one per result of the search for the   *)
(* place of the new lock.                                                  *)
(***************************************************************************)
\* faulty variant: the immediate caller is not compared with the token contract
execute_bond_any_caller(sender_cw20_contract, amount, unbonding_period, sender) ==
    IF unbonding_period \notin DOMAIN stake_config
    THEN NoUnbondingPeriodFound(unbonding_period)
    ELSE
    LET staking_multipliers == [stake_config[unbonding_period] EXCEPT !.staked = @ + amount]
        bonding_info == stake[sender][unbonding_period]
        added == add_unlocked_tokens(bonding_info, amount)
        new_stake == [added EXCEPT
            !.votes = calc_power(config, total_stake(added), staking_multipliers.voting),
            !.rewards = calc_power(config, total_stake(added), staking_multipliers.reward)]
        m == update_membership(sender, <<bonding_info.votes>>, <<new_stake.votes>>)
        r == update_rewards(sender, <<bonding_info.rewards>>, <<new_stake.rewards>>)
    IN  IF m.err # "" THEN Err(m.err)
        ELSE IF r.err # "" THEN Err(r.err)
        ELSE [err |-> "",
              stake_config |-> [stake_config EXCEPT ![unbonding_period] = staking_multipliers],
              stake |-> [stake EXCEPT ![sender][unbonding_period] = new_stake],
              members |-> m.members,
              total_votes |-> m.total_votes,
              members_changelog |-> m.members_changelog,
              total_votes_changelog |-> m.total_votes_changelog,
              rewards |-> r.rewards,
              total_rewards |-> r.total_rewards,
              withdraw_adjustment |-> r.withdraw_adjustment,
              total_staked |-> [total_staked EXCEPT !.staked = @ + amount],
              msgs |-> m.msgs]

execute_bond(sender_cw20_contract, amount, unbonding_period, sender) ==
    IF config.cw20_contract # sender_cw20_contract THEN Err("Cw20AddressesNotMatch")
    ELSE IF unbonding_period \notin DOMAIN stake_config
    THEN NoUnbondingPeriodFound(unbonding_period)
    ELSE
    LET staking_multipliers == [stake_config[unbonding_period] EXCEPT !.staked = @ + amount]
        bonding_info == stake[sender][unbonding_period]
        added == add_unlocked_tokens(bonding_info, amount)
        new_stake == [added EXCEPT
            !.votes = calc_power(config, total_stake(added), staking_multipliers.voting),
            !.rewards = calc_power(config, total_stake(added), staking_multipliers.reward)]
        m == update_membership(sender, <<bonding_info.votes>>, <<new_stake.votes>>)
        r == update_rewards(sender, <<bonding_info.rewards>>, <<new_stake.rewards>>)
    IN  IF m.err # "" THEN Err(m.err)
        ELSE IF r.err # "" THEN Err(r.err)
        ELSE [err |-> "",
              stake_config |-> [stake_config EXCEPT ![unbonding_period] = staking_multipliers],
              stake |-> [stake EXCEPT ![sender][unbonding_period] = new_stake],
              members |-> m.members,
              total_votes |-> m.total_votes,
              members_changelog |-> m.members_changelog,
              total_votes_changelog |-> m.total_votes_changelog,
              rewards |-> r.rewards,
              total_rewards |-> r.total_rewards,
              withdraw_adjustment |-> r.withdraw_adjustment,
              total_staked |-> [total_staked EXCEPT !.staked = @ + amount],
              msgs |-> m.msgs]

\* ReceiveDelegation(wrapper) sent by info_sender: the wrapper names the
\* account that delegated (wrapper.sender), the amount and, in its msg,
\* Delegate { unbonding_period }
execute_receive_delegation(info_sender, wrapper_sender, amount, unbonding_period) ==
    execute_bond(info_sender, amount, unbonding_period, wrapper_sender)

\* faulty variant: the new claim replaces the claims the account already has
create_claim_alone(list, amount, release_at) ==
    <<[amount |-> amount, release_at |-> release_at]>>

\* Claims::create_claim (cw-controllers) appends the claim to the account's list
create_claim(list, amount, release_at) ==
    Append(list, [amount |-> amount, release_at |-> release_at])

execute_unbond(sender, amount, unbonding_period) ==
    IF unbonding_period \notin DOMAIN stake_config
    THEN NoUnbondingPeriodFound(unbonding_period)
    ELSE IF stake_config[unbonding_period].staked < amount THEN Err("Overflow")
    ELSE
    LET staking_multipliers == [stake_config[unbonding_period] EXCEPT !.staked = @ - amount]
        bonding_info == stake[sender][unbonding_period]
        released == release_stake(bonding_info, now, amount)
        new_stake == [released.info EXCEPT
            !.votes = calc_power(config, total_stake(released.info), staking_multipliers.voting),
            !.rewards = calc_power(config, total_stake(released.info), staking_multipliers.reward)]
        m == update_membership(sender, <<bonding_info.votes>>, <<new_stake.votes>>)
        r == update_rewards(sender, <<bonding_info.rewards>>, <<new_stake.rewards>>)
    IN  IF ~released.ok
        THEN [err |-> "Overflow",
              stake_config |-> [stake_config EXCEPT ![unbonding_period] = staking_multipliers]]
        ELSE IF m.err # "" THEN Err(m.err)
        ELSE IF r.err # "" THEN Err(r.err)
        ELSE [err |-> "",
              stake_config |-> [stake_config EXCEPT ![unbonding_period] = staking_multipliers],
              stake |-> [stake EXCEPT ![sender][unbonding_period] = new_stake],
              claims |-> [claims EXCEPT ![sender] =
                              create_claim(@, amount, now + unbonding_period)],
              members |-> m.members,
              total_votes |-> m.total_votes,
              members_changelog |-> m.members_changelog,
              total_votes_changelog |-> m.total_votes_changelog,
              rewards |-> r.rewards,
              total_rewards |-> r.total_rewards,
              withdraw_adjustment |-> r.withdraw_adjustment,
              total_staked |-> [staked |-> IF total_staked.staked < amount THEN 0
                                           ELSE total_staked.staked - amount,
                                unbonding |-> total_staked.unbonding + amount],
              msgs |-> m.msgs]

\* faulty variant: source and destination may be the same bucket
execute_rebond_same_allowed(sender, amount, bond_from, bond_to) ==
    IF amount = 0 THEN {Err("NoRebondAmount")}
    ELSE IF bond_from \notin DOMAIN stake_config THEN {NoUnbondingPeriodFound(bond_from)}
    ELSE IF stake_config[bond_from].staked < amount THEN {Err("Overflow")}
    ELSE IF bond_to \notin DOMAIN stake_config
    THEN {[err |-> "NoUnbondingPeriodFound", period |-> bond_to,
           stake_config |-> [stake_config EXCEPT ![bond_from].staked = @ - amount]]}
    ELSE
    LET bond_from_staking_multipliers ==
            [stake_config[bond_from] EXCEPT !.staked = @ - amount]
        bond_to_staking_multipliers ==
            [stake_config[bond_to] EXCEPT !.staked = @ + amount]
        from_info == stake[sender][bond_from]
        to_info == stake[sender][bond_to]
        released == release_stake(from_info, now, amount)
        bond_from_stake_change == [released.info EXCEPT
            !.votes = calc_power(config, total_stake(released.info),
                                 bond_from_staking_multipliers.voting),
            !.rewards = calc_power(config, total_stake(released.info),
                                   bond_from_staking_multipliers.reward)]
        credits == IF bond_from > bond_to
                   THEN add_locked_tokens(to_info, now + (bond_from - bond_to), amount)
                   ELSE {add_unlocked_tokens(to_info, amount)}
        answer(credited) ==
            LET bond_to_stake_change == [credited EXCEPT
                    !.votes = calc_power(config, total_stake(credited),
                                         bond_to_staking_multipliers.voting),
                    !.rewards = calc_power(config, total_stake(credited),
                                           bond_to_staking_multipliers.reward)]
                m == update_membership(sender, <<to_info.votes, from_info.votes>>,
                         <<bond_to_stake_change.votes, bond_from_stake_change.votes>>)
                r == update_rewards(sender, <<to_info.rewards, from_info.rewards>>,
                         <<bond_to_stake_change.rewards, bond_from_stake_change.rewards>>)
            IN  IF m.err # "" THEN Err(m.err)
                ELSE IF r.err # "" THEN Err(r.err)
                ELSE [err |-> "",
                      stake_config |-> [stake_config EXCEPT
                                           ![bond_from] = bond_from_staking_multipliers,
                                           ![bond_to] = bond_to_staking_multipliers],
                      stake |-> [stake EXCEPT ![sender][bond_from] = bond_from_stake_change,
                                              ![sender][bond_to] = bond_to_stake_change],
                      members |-> m.members,
                      total_votes |-> m.total_votes,
                      members_changelog |-> m.members_changelog,
                      total_votes_changelog |-> m.total_votes_changelog,
                      rewards |-> r.rewards,
                      total_rewards |-> r.total_rewards,
                      withdraw_adjustment |-> r.withdraw_adjustment,
                      msgs |-> m.msgs]
    IN  IF ~released.ok
        THEN {[err |-> "Overflow",
               stake_config |-> [stake_config EXCEPT
                                    ![bond_from] = bond_from_staking_multipliers,
                                    ![bond_to] = bond_to_staking_multipliers]]}
        ELSE {answer(credited) : credited \in credits}

execute_rebond(sender, amount, bond_from, bond_to) ==
    IF amount = 0 THEN {Err("NoRebondAmount")}
    ELSE IF bond_from = bond_to THEN {Err("SameUnbondingRebond")}
    ELSE IF bond_from \notin DOMAIN stake_config THEN {NoUnbondingPeriodFound(bond_from)}
    ELSE IF stake_config[bond_from].staked < amount THEN {Err("Overflow")}
    ELSE IF bond_to \notin DOMAIN stake_config
    THEN {[err |-> "NoUnbondingPeriodFound", period |-> bond_to,
           stake_config |-> [stake_config EXCEPT ![bond_from].staked = @ - amount]]}
    ELSE
    LET bond_from_staking_multipliers ==
            [stake_config[bond_from] EXCEPT !.staked = @ - amount]
        bond_to_staking_multipliers ==
            [stake_config[bond_to] EXCEPT !.staked = @ + amount]
        from_info == stake[sender][bond_from]
        to_info == stake[sender][bond_to]
        released == release_stake(from_info, now, amount)
        bond_from_stake_change == [released.info EXCEPT
            !.votes = calc_power(config, total_stake(released.info),
                                 bond_from_staking_multipliers.voting),
            !.rewards = calc_power(config, total_stake(released.info),
                                   bond_from_staking_multipliers.reward)]
        credits == IF bond_from > bond_to
                   THEN add_locked_tokens(to_info, now + (bond_from - bond_to), amount)
                   ELSE {add_unlocked_tokens(to_info, amount)}
        answer(credited) ==
            LET bond_to_stake_change == [credited EXCEPT
                    !.votes = calc_power(config, total_stake(credited),
                                         bond_to_staking_multipliers.voting),
                    !.rewards = calc_power(config, total_stake(credited),
                                           bond_to_staking_multipliers.reward)]
                m == update_membership(sender, <<to_info.votes, from_info.votes>>,
                         <<bond_to_stake_change.votes, bond_from_stake_change.votes>>)
                r == update_rewards(sender, <<to_info.rewards, from_info.rewards>>,
                         <<bond_to_stake_change.rewards, bond_from_stake_change.rewards>>)
            IN  IF m.err # "" THEN Err(m.err)
                ELSE IF r.err # "" THEN Err(r.err)
                ELSE [err |-> "",
                      stake_config |-> [stake_config EXCEPT
                                           ![bond_from] = bond_from_staking_multipliers,
                                           ![bond_to] = bond_to_staking_multipliers],
                      stake |-> [stake EXCEPT ![sender][bond_from] = bond_from_stake_change,
                                              ![sender][bond_to] = bond_to_stake_change],
                      members |-> m.members,
                      total_votes |-> m.total_votes,
                      members_changelog |-> m.members_changelog,
                      total_votes_changelog |-> m.total_votes_changelog,
                      rewards |-> r.rewards,
                      total_rewards |-> r.total_rewards,
                      withdraw_adjustment |-> r.withdraw_adjustment,
                      msgs |-> m.msgs]
    IN  IF ~released.ok
        THEN {[err |-> "Overflow",
               stake_config |-> [stake_config EXCEPT
                                    ![bond_from] = bond_from_staking_multipliers,
                                    ![bond_to] = bond_to_staking_multipliers]]}
        ELSE {answer(credited) : credited \in credits}

\* faulty variant: once a claim has matured the whole list is released
claim_tokens_all(list, time) ==
    IF \E i \in DOMAIN list : list[i].release_at <= time
    THEN [to_send |-> SumSeq([i \in DOMAIN list |-> list[i].amount]), waiting |-> <<>>]
    ELSE [to_send |-> 0, waiting |-> list]

\* Claims::claim_tokens (cw-controllers) with no cap: the matured claims are
\* released, the others kept in their order
claim_tokens(list, time) ==
    LET send == SelectSeq(list, LAMBDA c : c.release_at <= time)
        waiting == SelectSeq(list, LAMBDA c : ~(c.release_at <= time))
    IN  [to_send |-> SumSeq([i \in DOMAIN send |-> send[i].amount]), waiting |-> waiting]

\* faulty variant: a release of nothing is not refused
execute_claim_unchecked(sender) ==
    LET c == claim_tokens(claims[sender], now)
        release == c.to_send
    IN  [err |-> "",
         claims |-> [claims EXCEPT ![sender] = c.waiting],
         total_staked |-> [total_staked EXCEPT
             !.unbonding = IF @ < release THEN 0 ELSE @ - release],
         msgs |-> <<[type |-> "Undelegate", to |-> config.cw20_contract,
                     recipient |-> sender, amount |-> release]>>]

\* faulty variant: the released sum stays in the unbonding counter
execute_claim_unbonding_kept(sender) ==
    LET c == claim_tokens(claims[sender], now)
        release == c.to_send
    IN  IF release = 0 THEN Err("NothingToClaim")
        ELSE [err |-> "",
              claims |-> [claims EXCEPT ![sender] = c.waiting],
              msgs |-> <<[type |-> "Undelegate", to |-> config.cw20_contract,
                          recipient |-> sender, amount |-> release]>>]

execute_claim(sender) ==
    LET c == claim_tokens(claims[sender], now)
        release == c.to_send
    IN  IF release = 0 THEN Err("NothingToClaim")
        ELSE [err |-> "",
              claims |-> [claims EXCEPT ![sender] = c.waiting],
              total_staked |-> [total_staked EXCEPT
                  !.unbonding = IF @ < release THEN 0 ELSE @ - release],
              msgs |-> <<[type |-> "Undelegate", to |-> config.cw20_contract,
                          recipient |-> sender, amount |-> release]>>]

(***************************************************************************)
(* Reward distribution (distribution.rs).                                  *)
(***************************************************************************)
\* faulty variant: the unbonding tokens are taken for rewards
undistributed_rewards_less_staked == balances[StakingContract] - total_staked.staked

\* the staking contract's token balance less the staked and unbonding tokens
undistributed_rewards == balances[StakingContract] - (total_staked.staked + total_staked.unbonding)

RewardPowers == [a \in Accounts |-> Get(rewards, a, 0)]

execute_distribute_rewards(sender) ==
    IF total_rewards = Absent THEN Err("NotFound")
    ELSE IF total_rewards[1] = 0 THEN Err("NoMembersToDistributeTo")
    ELSE IF undistributed_rewards < 0 THEN Err("Panic")
    ELSE
    LET total == total_rewards[1]
        withdrawable == distribution.withdrawable_total
        balance == undistributed_rewards
        amount == balance - withdrawable
        points == FxShlAdd(amount, distribution.shares_leftover)
        split == FxDivMod(points, total)
    IN  IF amount < 0 THEN Err("Panic")
        ELSE IF amount = 0 THEN [err |-> "", msgs |-> <<>>]
        ELSE [err |-> "",
              distribution |->
                  [shares_per_point |-> FxAdd(distribution.shares_per_point, split.q),
                   shares_leftover |-> split.r,
                   distributed_total |-> distribution.distributed_total + amount,
                   withdrawable_total |-> distribution.withdrawable_total + amount],
              msgs |-> <<>>]

\* faulty variant: the payout is booked in the record of the caller, not the owner
execute_withdraw_rewards_books_sender(sender, owner_opt, receiver_opt) ==
    LET owner == IF owner_opt = None THEN sender ELSE owner_opt
        adjustment == withdraw_adjustment[owner]
        w == withdrawable_rewards(owner, distribution, adjustment)
        stored == owner \in DOMAIN withdraw_adjustment
        reward == w.amount
        receiver == IF receiver_opt = None THEN sender ELSE receiver_opt
        booked == Get(withdraw_adjustment, sender, DefaultAdjustment(sender))
    IN  IF ~stored THEN Err("NotFound")
        ELSE IF sender \notin {owner, adjustment.delegated} THEN Err("Unauthorized")
        ELSE IF w.wrapped THEN Err("Panic")
        ELSE IF reward = 0 THEN [err |-> "", msgs |-> <<>>]
        ELSE IF distribution.withdrawable_total < reward THEN Err("Panic")
        ELSE [err |-> "",
              withdraw_adjustment |-> Put(withdraw_adjustment, sender,
                  [booked EXCEPT !.withdrawn_rewards = @ + reward]),
              distribution |-> [distribution EXCEPT !.withdrawable_total = @ - reward],
              msgs |-> <<[type |-> "Transfer", to |-> config.cw20_contract,
                          recipient |-> receiver, amount |-> reward]>>]

\* faulty variant: the payout is not booked in the owner's withdrawn_rewards
execute_withdraw_rewards_unbooked(sender, owner_opt, receiver_opt) ==
    LET owner == IF owner_opt = None THEN sender ELSE owner_opt
        adjustment == withdraw_adjustment[owner]
        w == withdrawable_rewards(owner, distribution, adjustment)
        stored == owner \in DOMAIN withdraw_adjustment
        reward == w.amount
        receiver == IF receiver_opt = None THEN sender ELSE receiver_opt
    IN  IF ~stored THEN Err("NotFound")
        ELSE IF sender \notin {owner, adjustment.delegated} THEN Err("Unauthorized")
        ELSE IF w.wrapped THEN Err("Panic")
        ELSE IF reward = 0 THEN [err |-> "", msgs |-> <<>>]
        ELSE IF distribution.withdrawable_total < reward THEN Err("Panic")
        ELSE [err |-> "",
              distribution |-> [distribution EXCEPT !.withdrawable_total = @ - reward],
              msgs |-> <<[type |-> "Transfer", to |-> config.cw20_contract,
                          recipient |-> receiver, amount |-> reward]>>]

execute_withdraw_rewards(sender, owner_opt, receiver_opt) ==
    LET owner == IF owner_opt = None THEN sender ELSE owner_opt
        adjustment == withdraw_adjustment[owner]
        w == withdrawable_rewards(owner, distribution, adjustment)
        stored == owner \in DOMAIN withdraw_adjustment
        reward == w.amount
        receiver == IF receiver_opt = None THEN sender ELSE receiver_opt
    IN  IF ~stored THEN Err("NotFound")
        ELSE IF sender \notin {owner, adjustment.delegated} THEN Err("Unauthorized")
        ELSE IF w.wrapped THEN Err("Panic")
        ELSE IF reward = 0 THEN [err |-> "", msgs |-> <<>>]
        ELSE IF distribution.withdrawable_total < reward THEN Err("Panic")
        ELSE [err |-> "",
              withdraw_adjustment |-> Put(withdraw_adjustment, owner,
                  [adjustment EXCEPT !.withdrawn_rewards = @ + reward]),
              distribution |-> [distribution EXCEPT !.withdrawable_total = @ - reward],
              msgs |-> <<[type |-> "Transfer", to |-> config.cw20_contract,
                          recipient |-> receiver, amount |-> reward]>>]

\* faulty variant: the owner's record is replaced by a fresh one
execute_delegate_withdrawal_fresh(sender, delegate) ==
    [err |-> "",
     withdraw_adjustment |-> Put(withdraw_adjustment, sender,
         [shares_correction |-> FxZero, withdrawn_rewards |-> 0, delegated |-> delegate]),
     msgs |-> <<>>]

execute_delegate_withdrawal(sender, delegate) ==
    [err |-> "",
     withdraw_adjustment |-> Put(withdraw_adjustment, sender,
         IF sender \notin DOMAIN withdraw_adjustment
         THEN [shares_correction |-> FxZero, withdrawn_rewards |-> 0, delegated |-> delegate]
         ELSE [withdraw_adjustment[sender] EXCEPT !.delegated = delegate]),
     msgs |-> <<>>]

\* query_withdrawable_rewards: 0 for an account without adjustment, -1 for a
\* wrapped result
query_withdrawable_rewards(owner) ==
    IF owner \notin DOMAIN withdraw_adjustment THEN 0
    ELSE LET w == withdrawable_rewards(owner, distribution, withdraw_adjustment[owner])
         IN  IF w.wrapped THEN -1 ELSE w.amount

\* query_undistributed_rewards: what the next distribution would distribute
query_undistributed_rewards == undistributed_rewards - distribution.withdrawable_total

\* an optional height is Absent or Some(h)
query_voting_power(addr, height_opt) ==
    OrZero(IF height_opt = Absent THEN MayLoad(members, addr)
           ELSE may_load_at_height(members_changelog[addr], MayLoad(members, addr),
                                   height_opt[1]))

query_total_power(height_opt) ==
    OrZero(IF height_opt = Absent THEN Some(total_votes)
           ELSE may_load_at_height(total_votes_changelog, Some(total_votes),
                                   height_opt[1]))

\* query_bonding_info: one entry for each position of the configured list of
\* periods whose STAKE_CONFIG record exists, in the order of the list
query_bonding_info ==
    LET listed == SelectSeq(config.unbonding_periods, LAMBDA up : up \in DOMAIN stake_config)
    IN  [i \in DOMAIN listed |->
            [unbonding_period |-> listed[i],
             voting_multiplier |-> stake_config[listed[i]].voting,
             reward_multiplier |-> stake_config[listed[i]].reward,
             total_staked |-> stake_config[listed[i]].staked]]

query_delegated(owner) ==
    IF owner \notin DOMAIN withdraw_adjustment THEN owner
    ELSE withdraw_adjustment[owner].delegated

(***************************************************************************)
(* Admin::execute_update_admin and Hooks::execute_add_hook,                *)
(* execute_remove_hook (cw-controllers), as called by execute: only the    *)
(* admin may name another admin (or none) and change the list of observers.*)
(* add_hook reads HOOKS with may_load, remove_hook with load, which fails  *)
(* while the item has not been saved.                                      *)
(***************************************************************************)
\* Admin::is_admin
is_admin(caller) == admin # None /\ caller = admin

execute_update_admin(sender, new_admin) ==
    IF ~is_admin(sender) THEN Err("NotAdmin")
    ELSE [err |-> "", admin |-> new_admin, msgs |-> <<>>]

\* faulty variant: an address that is already registered is appended again
execute_add_hook_unchecked(sender, addr) ==
    IF ~is_admin(sender) THEN Err("NotAdmin")
    ELSE [err |-> "", hooks |-> Some(Append(query_hooks, addr)), msgs |-> <<>>]

execute_add_hook(sender, addr) ==
    IF ~is_admin(sender) THEN Err("NotAdmin")
    ELSE IF addr \in Range(query_hooks) THEN Err("HookAlreadyRegistered")
    ELSE [err |-> "", hooks |-> Some(Append(query_hooks, addr)), msgs |-> <<>>]

\* Vec::remove at the position of the first element equal to e
RemoveFirst(s, e) ==
    LET p == CHOOSE i \in DOMAIN s : s[i] = e /\ \A j \in 1 .. i - 1 : s[j] # e
    IN  SubSeq(s, 1, p - 1) \o SubSeq(s, p + 1, Len(s))

\* Hooks::remove_hook reads the list with `load`, which fails while no list
\* has been saved
execute_remove_hook(sender, addr) ==
    IF ~is_admin(sender) THEN Err("NotAdmin")
    ELSE IF hooks = Absent THEN Err("NotFound")
    ELSE IF addr \notin Range(hooks[1]) THEN Err("HookNotRegistered")
    ELSE [err |-> "", hooks |-> Some(RemoveFirst(hooks[1], addr)), msgs |-> <<>>]

(***************************************************************************)
(* Curves (packages/utils/src/curve.rs): a vesting schedule or a minting   *)
(* cap is a function of the block time in seconds, given as a constant, a  *)
(* saturating line or a list of steps <<x, y>>.                            *)
(***************************************************************************)
Constant(y) == [kind |-> "constant", y |-> y]

SaturatingLinear(min_x, min_y, max_x, max_y) ==
    [kind |-> "saturating_linear", min_x |-> min_x, min_y |-> min_y,
     max_x |-> max_x, max_y |-> max_y]

PiecewiseLinear(steps) == [kind |-> "piecewise_linear", steps |-> steps]

\* requires min_x < x < max_x, or x at one end of a line of positive length
interpolate(min_x, min_y, max_x, max_y, x) ==
    IF max_y > min_y
    THEN min_y + ((max_y - min_y) * (x - min_x)) \div (max_x - min_x)
    ELSE min_y - ((min_y - max_y) * (x - min_x)) \div (max_x - min_x)

\* PiecewiseLinear::value, the loop: the index of `next` when the loop ends
RECURSIVE piecewise_next(_, _, _)
piecewise_next(steps, x, n) ==
    IF n < Len(steps) /\ x >= steps[n][1] THEN piecewise_next(steps, x, n + 1) ELSE n

piecewise_value(steps, x) ==
    LET n == piecewise_next(steps, x, 1)
    IN  IF n = 1 THEN steps[1][2]
        ELSE LET last == steps[n - 1]
                 next == steps[n]
             IN  IF x = last[1] THEN last[2]
                 ELSE IF x >= next[1] THEN next[2]
                 ELSE interpolate(last[1], last[2], next[1], next[2], x)

\* the evaluations that abort the command: a step list without steps is
\* indexed, a line of length zero is divided by
value_panics(curve, x) ==
    \/ curve.kind = "piecewise_linear" /\ curve.steps = <<>>
    \/ curve.kind = "saturating_linear" /\ curve.min_x = x /\ curve.max_x = x

\* Curve::value: y = f(x)
value(curve, x) ==
    IF curve.kind = "constant" THEN curve.y
    ELSE IF curve.kind = "saturating_linear"
    THEN IF x < curve.min_x THEN curve.min_y
         ELSE IF x > curve.max_x THEN curve.max_y
         ELSE interpolate(curve.min_x, curve.min_y, curve.max_x, curve.max_y, x)
    ELSE piecewise_value(curve.steps, x)

\* Curve::size: the number of steps
size(curve) ==
    IF curve.kind = "constant" THEN 1
    ELSE IF curve.kind = "saturating_linear" THEN 2
    ELSE Len(curve.steps)

\* PiecewiseLinear::validate, the fold: every x is above the one before it,
\* the first above 0
RECURSIVE steps_in_order(_, _)
steps_in_order(steps, last) ==
    \/ steps = <<>>
    \/ Head(steps)[1] > last /\ steps_in_order(Tail(steps), Head(steps)[1])

\* Curve::validate: the error, or "" when the curve is well formed
validate(curve) ==
    IF curve.kind = "constant" THEN ""
    ELSE IF curve.kind = "saturating_linear"
    THEN IF curve.max_x <= curve.min_x THEN "PointsOutOfOrder" ELSE ""
    ELSE IF curve.steps = <<>> THEN "MissingSteps"
    ELSE IF ~steps_in_order(curve.steps, 0) THEN "PointsOutOfOrder"
    ELSE ""

\* PiecewiseLinear::classify_curve over the steps after the first
RECURSIVE classify_curve(_, _, _)
classify_curve(steps, last, shape) ==
    IF steps = <<>> THEN shape
    ELSE LET y == Head(steps)[2]
             next == IF shape = "NotMonotonic" THEN "NotMonotonic"
                     ELSE IF shape = "MonotonicDecreasing"
                     THEN IF y > last THEN "NotMonotonic" ELSE "MonotonicDecreasing"
                     ELSE IF shape = "MonotonicIncreasing"
                     THEN IF y < last THEN "NotMonotonic" ELSE "MonotonicIncreasing"
                     ELSE IF y > last THEN "MonotonicIncreasing"
                     ELSE IF y < last THEN "MonotonicDecreasing"
                     ELSE "Constant"
         IN  classify_curve(Tail(steps), y, next)

Shape(curve) == classify_curve(Tail(curve.steps), curve.steps[1][2], "Constant")

validate_monotonic_increasing(curve) ==
    IF validate(curve) # "" THEN validate(curve)
    ELSE IF curve.kind = "constant" THEN ""
    ELSE IF curve.kind = "saturating_linear"
    THEN IF curve.max_y < curve.min_y THEN "MonotonicDecreasing" ELSE ""
    ELSE IF Shape(curve) \in {"NotMonotonic", "MonotonicDecreasing"} THEN Shape(curve)
    ELSE ""

validate_monotonic_decreasing(curve) ==
    IF validate(curve) # "" THEN validate(curve)
    ELSE IF curve.kind = "constant" THEN ""
    ELSE IF curve.kind = "saturating_linear"
    THEN IF curve.max_y > curve.min_y THEN "MonotonicIncreasing" ELSE ""
    ELSE IF Shape(curve) \in {"NotMonotonic", "MonotonicIncreasing"} THEN Shape(curve)
    ELSE ""

validate_complexity(curve, max) == IF size(curve) <= max THEN "" ELSE "TooComplex"

SetMin(S) == CHOOSE m \in S : \A k \in S : m <= k

SetMax(S) == CHOOSE m \in S : \A k \in S : m >= k

\* Curve::range: the least and the greatest value the curve takes
range(curve) ==
    IF curve.kind = "constant" THEN [low |-> curve.y, high |-> curve.y]
    ELSE IF curve.kind = "saturating_linear"
    THEN IF curve.max_y > curve.min_y
         THEN [low |-> curve.min_y, high |-> curve.max_y]
         ELSE [low |-> curve.max_y, high |-> curve.min_y]
    ELSE [low |-> SetMin({curve.steps[i][2] : i \in DOMAIN curve.steps}),
          high |-> SetMax({curve.steps[i][2] : i \in DOMAIN curve.steps})]

\* Curve::combine_const: the curve shifted up by const_y
combine_const(curve, const_y) ==
    IF curve.kind = "constant" THEN Constant(const_y + curve.y)
    ELSE IF curve.kind = "saturating_linear"
    THEN SaturatingLinear(curve.min_x, curve.min_y + const_y,
                          curve.max_x, curve.max_y + const_y)
    ELSE PiecewiseLinear([i \in DOMAIN curve.steps |->
                             <<curve.steps[i][1], const_y + curve.steps[i][2]>>])

\* sort_unstable and dedup of a list of x: the set of them in rising order
RECURSIVE Sorted(_)
Sorted(S) == IF S = {} THEN <<>> ELSE <<SetMin(S)>> \o Sorted(S \ {SetMin(S)})

\* From<&SaturatingLinear> for PiecewiseLinear
steps_of(curve) ==
    IF curve.kind = "saturating_linear"
    THEN <<<<curve.min_x, curve.min_y>>, <<curve.max_x, curve.max_y>>>>
    ELSE curve.steps

\* PiecewiseLinear::combine: the sum of two step lists at every x of either
piecewise_combine(steps, other) ==
    LET x == Sorted({steps[i][1] : i \in DOMAIN steps}
                    \cup {other[i][1] : i \in DOMAIN other})
    IN  [i \in DOMAIN x |-> <<x[i], piecewise_value(steps, x[i])
                                        + piecewise_value(other, x[i])>>]

\* Curve::combine: the sum of two curves
combine(curve, other) ==
    IF curve.kind = "constant" THEN combine_const(other, curve.y)
    ELSE IF other.kind = "constant" THEN combine_const(curve, other.y)
    ELSE PiecewiseLinear(piecewise_combine(steps_of(curve), steps_of(other)))

(***************************************************************************)
(* The token ledger (cw20-vesting).  Its handlers take the ledger t, the   *)
(* maps BALANCES, DELEGATED and VESTING as the transaction has written     *)
(* them so far, and answer the error or the maps they leave; TOKEN_INFO,   *)
(* ALLOWLIST, ALLOWANCES and STAKING are read from the state.              *)
(***************************************************************************)
Ledger == [balances |-> balances, delegated |-> delegated, vesting |-> vesting]

LedgerWritten(t, msgs) ==
    [err |-> "", balances |-> t.balances, delegated |-> t.delegated,
     vesting |-> t.vesting, msgs |-> msgs]

\* BALANCES.update(addr, |balance| balance.unwrap_or_default() + amount)
credit(t, addr, amount) ==
    [t EXCEPT !.balances = Put(@, addr, Get(@, addr, 0) + amount)]

\* deduct_coins: the sender's balance is lowered by amount if what is left,
\* with what the sender has delegated, covers what is still vesting; a
\* schedule that has run out is deleted
deduct_coins(t, sender, amount) ==
    LET vested == IF sender \in DOMAIN t.vesting THEN value(t.vesting[sender], now) ELSE 0
        balance == Get(t.balances, sender, 0)
        held == balance + Get(t.delegated, sender, 0)
    IN  IF held < amount THEN Err("Overflow")
        ELSE IF vested > held - amount THEN Err("CantMoveVestingTokens")
        ELSE IF balance < amount THEN Err("Overflow")
        ELSE [err |-> "",
              balances |-> Put(t.balances, sender, balance - amount),
              delegated |-> t.delegated,
              vesting |-> IF vested = 0 THEN Remove(t.vesting, sender) ELSE t.vesting]

\* TokenInfo::get_cap: the minting cap at the block time, if there is one
get_cap ==
    IF token_info.mint = Absent \/ token_info.mint[1].cap = Absent THEN Absent
    ELSE Some(value(token_info.mint[1].cap[1], now))

\* assert_schedule_vests_amount: the schedule falls to 0 and never exceeds amount
assert_schedule_vests_amount(schedule, amount) ==
    IF validate_monotonic_decreasing(schedule) # ""
    THEN validate_monotonic_decreasing(schedule)
    ELSE IF range(schedule).low # 0 THEN "NeverFullyVested"
    ELSE IF range(schedule).high > amount THEN "VestsMoreThanSent"
    ELSE ""

fully_vested(schedule) == value(schedule, now) = 0

cw20_transfer(t, sender, recipient, amount) ==
    IF amount = 0 THEN Err("InvalidZeroAmount")
    ELSE LET d == deduct_coins(t, sender, amount)
         IN  IF d.err # "" THEN d ELSE LedgerWritten(credit(d, recipient, amount), <<>>)

\* execute_transfer_vesting: an allowed vester sends tokens that the
\* recipient may move only as the schedule releases them
cw20_transfer_vesting(t, sender, recipient, amount, schedule) ==
    IF sender \notin Range(allowlist) THEN Err("Unauthorized")
    ELSE IF amount = 0 THEN Err("InvalidZeroAmount")
    ELSE IF assert_schedule_vests_amount(schedule, amount) # ""
    THEN Err(assert_schedule_vests_amount(schedule, amount))
    ELSE LET combined == IF recipient \in DOMAIN t.vesting
                         THEN combine(t.vesting[recipient], schedule)
                         ELSE schedule
             stored == IF fully_vested(schedule) THEN t
                       ELSE [t EXCEPT !.vesting = Put(@, recipient, combined)]
             d == deduct_coins(stored, sender, amount)
         IN  IF ~fully_vested(schedule)
                /\ validate_complexity(combined, max_vesting_complexity) # ""
             THEN Err("TooComplex")
             ELSE IF d.err # "" THEN d
             ELSE LedgerWritten(credit(d, recipient, amount), <<>>)

cw20_burn(t, sender, amount) ==
    IF amount = 0 THEN Err("InvalidZeroAmount")
    ELSE LET d == deduct_coins(t, sender, amount)
         IN  IF d.err # "" THEN d
             ELSE IF token_info.total_supply < amount THEN Err("Overflow")
             ELSE [k \in {"err", "balances", "delegated", "vesting", "msgs", "token_info"} |->
                     IF k = "token_info"
                     THEN [token_info EXCEPT !.total_supply = @ - amount]
                     ELSE LedgerWritten(d, <<>>)[k]]

cw20_mint(t, sender, recipient, amount) ==
    IF amount = 0 THEN Err("InvalidZeroAmount")
    ELSE IF token_info.mint = Absent \/ token_info.mint[1].minter # sender
    THEN Err("Unauthorized")
    ELSE IF token_info.mint[1].cap # Absent /\ value_panics(token_info.mint[1].cap[1], now)
    THEN Err("Panic")
    ELSE IF get_cap # Absent /\ token_info.total_supply + amount > get_cap[1]
    THEN Err("CannotExceedCap")
    ELSE [k \in {"err", "balances", "delegated", "vesting", "msgs", "token_info"} |->
             IF k = "token_info"
             THEN [token_info EXCEPT !.total_supply = @ + amount]
             ELSE LedgerWritten(credit(t, recipient, amount), <<>>)[k]]

cw20_update_minter(sender, minter) ==
    IF token_info.mint = Absent \/ token_info.mint[1].minter # sender
    THEN Err("Unauthorized")
    ELSE [err |-> "",
          token_info |-> [token_info EXCEPT !.mint = Some([@[1] EXCEPT !.minter = minter])],
          msgs |-> <<>>]

\* the Cw20ReceiveMsg a Send hands to the receiving contract
Cw20ReceiveMsg(contract, sender, amount) ==
    [type |-> "Receive", to |-> contract, sender |-> sender, amount |-> amount]

cw20_send(t, sender, contract, amount) ==
    IF amount = 0 THEN Err("InvalidZeroAmount")
    ELSE LET d == deduct_coins(t, sender, amount)
         IN  IF d.err # "" THEN d
             ELSE LedgerWritten(credit(d, contract, amount),
                          <<Cw20ReceiveMsg(contract, sender, amount)>>)

\* execute_add_address (AllowVester)
cw20_add_address(sender, address) ==
    IF sender \notin Range(allowlist) THEN Err("Unauthorized")
    ELSE IF address \in Range(allowlist) THEN Err("AddressAlreadyExist")
    ELSE [err |-> "", allowlist |-> Append(allowlist, address), msgs |-> <<>>]

\* execute_remove_address (DenyVester)
cw20_remove_address(sender, address) ==
    LET left == SelectSeq(allowlist, LAMBDA item : item # address)
    IN  IF sender \notin Range(allowlist) THEN Err("Unauthorized")
        ELSE IF Len(left) = Len(allowlist) THEN Err("AddressNotFound")
        ELSE IF left = <<>> THEN Err("AtLeastOneAddressMustExist")
        ELSE [err |-> "", allowlist |-> left, msgs |-> <<>>]

\* migrate: the minting cap is replaced by a curve given in steps
cw20_migrate(picewise_linear_curve) ==
    IF picewise_linear_curve.kind # "piecewise_linear" THEN Err("MigrationIncorrectCurve")
    ELSE IF token_info.mint = Absent THEN Err("Panic")
    ELSE [err |-> "",
          token_info |-> [token_info EXCEPT
                             !.mint = Some([@[1] EXCEPT !.cap = Some(picewise_linear_curve)])],
          msgs |-> <<>>]

\* execute_update_staking_address: the minter registers the staking contract, once
cw20_update_staking_address(sender, staking_address) ==
    IF staking # None THEN Err("StakingAddressAlreadyUpdated")
    ELSE IF token_info.mint = Absent THEN Err("MinterAddressNotSet")
    ELSE IF sender # token_info.mint[1].minter THEN Err("UnauthorizedUpdateStakingAddress")
    ELSE [err |-> "", staking |-> staking_address, msgs |-> <<>>]

\* faulty variant: the caller is not compared with the registered staking contract
cw20_undelegate_any_caller(t, caller, recipient, amount) ==
    IF amount = 0 THEN Err("InvalidZeroAmount")
    ELSE IF staking = None THEN Err("StakingAddressNotSet")
    ELSE IF recipient \notin DOMAIN t.delegated THEN Err("NoTokensDelegated")
    ELSE IF t.delegated[recipient] < amount THEN Err("Overflow")
    ELSE LET d == deduct_coins([t EXCEPT !.delegated[recipient] = @ - amount],
                               caller, amount)
         IN  IF d.err # "" THEN d ELSE LedgerWritten(credit(d, recipient, amount), <<>>)

cw20_undelegate(t, caller, recipient, amount) ==
    IF amount = 0 THEN Err("InvalidZeroAmount")
    ELSE IF staking = None THEN Err("StakingAddressNotSet")
    ELSE IF staking # caller THEN Err("UnauthorizedUndelegate")
    ELSE IF recipient \notin DOMAIN t.delegated THEN Err("NoTokensDelegated")
    ELSE IF t.delegated[recipient] < amount THEN Err("Overflow")
    ELSE LET d == deduct_coins([t EXCEPT !.delegated[recipient] = @ - amount],
                               caller, amount)
         IN  IF d.err # "" THEN d ELSE LedgerWritten(credit(d, recipient, amount), <<>>)

(***************************************************************************)
(* The allowance commands of the token ledger.  execute dispatches them to *)
(* allowances.rs, which is not among the sources at hand: they are written *)
(* after the messages' descriptions (msg.rs), the ALLOWANCES item          *)
(* (state.rs), the errors the ledger declares for them (error.rs) and the  *)
(* cw20 allowance extension those follow.  An owner grants a spender an    *)
(* amount, with or without an expiration; the spender moves, sends or      *)
(* burns the owner's tokens up to that amount, under the owner's vesting   *)
(* schedule.                                                               *)
(***************************************************************************)
\* AllowanceResponse::default: nothing allowed, never expiring
DefaultAllowance == [allowance |-> 0, expires |-> [never |-> TRUE]]

\* Expiration::is_expired: an expiration is [never], [at_time] or [at_height]
is_expired(expires) ==
    IF "at_time" \in DOMAIN expires THEN now >= expires.at_time
    ELSE IF "at_height" \in DOMAIN expires THEN height >= expires.at_height
    ELSE FALSE

\* execute_increase_allowance: expires is Absent or Some(expiration)
cw20_increase_allowance(sender, spender, amount, expires) ==
    IF spender = sender THEN Err("CannotSetOwnAccount")
    ELSE LET val == Get(allowances, <<sender, spender>>, DefaultAllowance)
         IN  [err |-> "",
              allowances |-> Put(allowances, <<sender, spender>>,
                                 [allowance |-> val.allowance + amount,
                                  expires |-> IF expires = Absent THEN val.expires
                                              ELSE expires[1]]),
              msgs |-> <<>>]

\* execute_decrease_allowance: the record is deleted when nothing is left
cw20_decrease_allowance(sender, spender, amount, expires) ==
    IF spender = sender THEN Err("CannotSetOwnAccount")
    ELSE IF <<sender, spender>> \notin DOMAIN allowances THEN Err("NotFound")
    ELSE LET val == allowances[<<sender, spender>>]
         IN  [err |-> "",
              allowances |->
                  IF amount < val.allowance
                  THEN Put(allowances, <<sender, spender>>,
                           [allowance |-> val.allowance - amount,
                            expires |-> IF expires = Absent THEN val.expires
                                        ELSE expires[1]])
                  ELSE Remove(allowances, <<sender, spender>>),
              msgs |-> <<>>]

\* deduct_allowance: the spender's allowance on the owner's account, lowered
\* by amount
deduct_allowance(owner, spender, amount) ==
    IF <<owner, spender>> \notin DOMAIN allowances THEN Err("NoAllowance")
    ELSE LET val == allowances[<<owner, spender>>]
         IN  IF is_expired(val.expires) THEN Err("Expired")
             ELSE IF val.allowance < amount THEN Err("Overflow")
             ELSE [err |-> "",
                   allowances |-> Put(allowances, <<owner, spender>>,
                                      [val EXCEPT !.allowance = @ - amount])]

\* the answer of a command that spends an allowance: the ledger, the
\* allowances and the messages it leaves
SpentFrom(a, t, msgs) ==
    [err |-> "", balances |-> t.balances, delegated |-> t.delegated,
     vesting |-> t.vesting, allowances |-> a.allowances, msgs |-> msgs]

\* execute_transfer_from
cw20_transfer_from(t, spender, owner, recipient, amount) ==
    LET a == deduct_allowance(owner, spender, amount)
        d == deduct_coins(t, owner, amount)
    IN  IF a.err # "" THEN a
        ELSE IF d.err # "" THEN d
        ELSE SpentFrom(a, credit(d, recipient, amount), <<>>)

\* execute_burn_from
cw20_burn_from(t, spender, owner, amount) ==
    LET a == deduct_allowance(owner, spender, amount)
        d == deduct_coins(t, owner, amount)
    IN  IF a.err # "" THEN a
        ELSE IF d.err # "" THEN d
        ELSE IF token_info.total_supply < amount THEN Err("Overflow")
        ELSE [k \in DOMAIN SpentFrom(a, d, <<>>) \cup {"token_info"} |->
                 IF k = "token_info"
                 THEN [token_info EXCEPT !.total_supply = @ - amount]
                 ELSE SpentFrom(a, d, <<>>)[k]]

\* execute_send_from: the receiving contract is told of the spender
cw20_send_from(t, spender, owner, contract, amount) ==
    LET a == deduct_allowance(owner, spender, amount)
        d == deduct_coins(t, owner, amount)
    IN  IF a.err # "" THEN a
        ELSE IF d.err # "" THEN d
        ELSE SpentFrom(a, credit(d, contract, amount),
                       <<Cw20ReceiveMsg(contract, spender, amount)>>)

\* the host runs the response's messages in order; one failure fails them
\* all.  Transfer and Undelegate reach the token ledger from the staking
\* contract; neither contract has a Receive command; what is at any other
\* address accepts its messages or refuses them
RECURSIVE dispatch(_, _, _)
dispatch(msgs, t, accepted) ==
    IF msgs = <<>> THEN LedgerWritten(t, <<>>)
    ELSE LET msg == Head(msgs)
             one == IF msg.to = Cw20Contract /\ msg.type = "Transfer"
                    THEN cw20_transfer(t, StakingContract, msg.recipient, msg.amount)
                    ELSE IF msg.to = Cw20Contract /\ msg.type = "Undelegate"
                    THEN cw20_undelegate(t, StakingContract, msg.recipient, msg.amount)
                    ELSE IF msg.to \in {Cw20Contract, StakingContract}
                    THEN Err("UnknownVariant")
                    ELSE IF accepted THEN LedgerWritten(t, <<>>)
                    ELSE Err("Refused")
         IN  IF one.err # "" THEN Err(one.err)
             ELSE dispatch(Tail(msgs), one, accepted)

\* the Cw20ReceiveDelegationMsg a Delegate hands to the staking address
Cw20ReceiveDelegationMsg(contract, sender, amount, unbonding_period) ==
    [type |-> "ReceiveDelegation", to |-> contract, sender |-> sender,
     amount |-> amount, unbonding_period |-> unbonding_period]

\* faulty variant: the delegation is not recorded in DELEGATED
cw20_delegate_unrecorded(sender, amount, unbonding_period) ==
    IF amount = 0 THEN Err("InvalidZeroAmount")
    ELSE IF staking = None THEN Err("StakingAddressNotSet")
    ELSE IF Get(balances, sender, 0) < amount THEN Err("NotEnoughToDelegate")
    ELSE LET moved == credit([balances |-> Put(balances, sender,
                                                Get(balances, sender, 0) - amount)],
                             staking, amount).balances
             b == execute_receive_delegation(Cw20Contract, sender, amount, unbonding_period)
         IN  IF staking # StakingContract
             THEN [err |-> "", balances |-> moved,
                   msgs |-> <<Cw20ReceiveDelegationMsg(staking, sender, amount,
                                                       unbonding_period)>>]
             ELSE IF b.err # "" THEN b
             ELSE [k \in DOMAIN b \cup {"balances"} |->
                     IF k = "balances" THEN moved ELSE b[k]]

\* cw20-vesting execute_delegate: the tokens move to the registered staking
\* address, which is told with a ReceiveDelegation message.  When that
\* address is the staking contract, the message is run here: its bond is
\* part of the answer, and its failure fails the command.
cw20_delegate(sender, amount, unbonding_period) ==
    IF amount = 0 THEN Err("InvalidZeroAmount")
    ELSE IF staking = None THEN Err("StakingAddressNotSet")
    ELSE IF Get(balances, sender, 0) < amount THEN Err("NotEnoughToDelegate")
    ELSE LET moved == credit([balances |-> Put(balances, sender,
                                                Get(balances, sender, 0) - amount)],
                             staking, amount).balances
             recorded == Put(delegated, sender, Get(delegated, sender, 0) + amount)
             b == execute_receive_delegation(Cw20Contract, sender, amount, unbonding_period)
         IN  IF staking # StakingContract
             THEN [err |-> "", balances |-> moved, delegated |-> recorded,
                   msgs |-> <<Cw20ReceiveDelegationMsg(staking, sender, amount,
                                                       unbonding_period)>>]
             ELSE IF b.err # "" THEN b
             ELSE [k \in DOMAIN b \cup {"balances", "delegated"} |->
                     IF k = "balances" THEN moved
                     ELSE IF k = "delegated" THEN recorded
                     ELSE b[k]]

(***************************************************************************)
(* A transaction: the command's writes and the effects of its messages are *)
(* committed together, or none is.                                         *)
(***************************************************************************)
\* what the receivers outside the two contracts may do with the command's
\* messages: accept them all, or refuse one
Receivers(r) ==
    IF r.err = "" /\ \E i \in DOMAIN r.msgs : r.msgs[i].to \notin {Cw20Contract, StakingContract}
    THEN BOOLEAN
    ELSE {TRUE}

\* the ledger as the command has written it when its messages are sent
LedgerOf(r) ==
    [balances |-> IF "balances" \in DOMAIN r THEN r.balances ELSE balances,
     delegated |-> IF "delegated" \in DOMAIN r THEN r.delegated ELSE delegated,
     vesting |-> IF "vesting" \in DOMAIN r THEN r.vesting ELSE vesting]

RunCommand(command) ==
    \E r \in {command} : \E accepted \in Receivers(r) :
    \E d \in {IF r.err # "" THEN Err(r.err) ELSE dispatch(r.msgs, LedgerOf(r), accepted)} :
    LET ok == d.err = ""
        W(field, current) == IF ok /\ field \in DOMAIN r THEN r[field] ELSE current
    IN  /\ stake_config' = W("stake_config", stake_config)
        /\ stake' = W("stake", stake)
        /\ claims' = W("claims", claims)
        /\ members' = W("members", members)
        /\ total_votes' = W("total_votes", total_votes)
        /\ rewards' = W("rewards", rewards)
        /\ total_rewards' = W("total_rewards", total_rewards)
        /\ total_staked' = W("total_staked", total_staked)
        /\ distribution' = W("distribution", distribution)
        /\ withdraw_adjustment' = W("withdraw_adjustment", withdraw_adjustment)
        /\ balances' = IF ok THEN d.balances ELSE balances
        /\ delegated' = IF ok THEN d.delegated ELSE delegated
        /\ vesting' = IF ok THEN d.vesting ELSE vesting
        /\ hooks' = W("hooks", hooks)
        /\ members_changelog' = W("members_changelog", members_changelog)
        /\ total_votes_changelog' = W("total_votes_changelog", total_votes_changelog)
        /\ staking' = W("staking", staking)
        /\ admin' = W("admin", admin)
        /\ token_info' = W("token_info", token_info)
        /\ allowlist' = W("allowlist", allowlist)
        /\ allowances' = W("allowances", allowances)
        /\ UNCHANGED <<config, max_vesting_complexity, now, height, pool_u128>>

Delegate(sender, amount, unbonding_period) ==
    RunCommand(cw20_delegate(sender, amount, unbonding_period))

\* a ReceiveDelegation message sent to the contract by any address
ReceiveDelegation(info_sender, wrapper_sender, amount, unbonding_period) ==
    RunCommand(execute_receive_delegation(info_sender, wrapper_sender, amount,
                                          unbonding_period))

Unbond(sender, amount, unbonding_period) ==
    RunCommand(execute_unbond(sender, amount, unbonding_period))

\* one transaction per answer the handler may give
Rebond(sender, amount, bond_from, bond_to) ==
    \E r \in execute_rebond(sender, amount, bond_from, bond_to) : RunCommand(r)

Claim(sender) == RunCommand(execute_claim(sender))

DistributeRewards(sender) ==
    RunCommand(execute_distribute_rewards(sender))

WithdrawRewards(sender, owner_opt, receiver_opt) ==
    RunCommand(execute_withdraw_rewards(sender, owner_opt, receiver_opt))

DelegateWithdrawal(sender, delegate) ==
    RunCommand(execute_delegate_withdrawal(sender, delegate))

UpdateAdmin(sender, new_admin) == RunCommand(execute_update_admin(sender, new_admin))

AddHook(sender, addr) == RunCommand(execute_add_hook(sender, addr))

RemoveHook(sender, addr) == RunCommand(execute_remove_hook(sender, addr))

\* the commands of the token ledger, sent by any address
Transfer(sender, recipient, amount) ==
    RunCommand(cw20_transfer(Ledger, sender, recipient, amount))

TransferVesting(sender, recipient, amount, schedule) ==
    RunCommand(cw20_transfer_vesting(Ledger, sender, recipient, amount, schedule))

Burn(sender, amount) == RunCommand(cw20_burn(Ledger, sender, amount))

Mint(sender, recipient, amount) == RunCommand(cw20_mint(Ledger, sender, recipient, amount))

UpdateMinter(sender, minter) == RunCommand(cw20_update_minter(sender, minter))

Send(sender, contract, amount) == RunCommand(cw20_send(Ledger, sender, contract, amount))

AllowVester(sender, address) == RunCommand(cw20_add_address(sender, address))

DenyVester(sender, address) == RunCommand(cw20_remove_address(sender, address))

\* the allowance commands; an allowance grows up to MaxAllowance
IncreaseAllowance(sender, spender, amount, expires) ==
    /\ Get(allowances, <<sender, spender>>, DefaultAllowance).allowance + amount
           <= MaxAllowance
    /\ RunCommand(cw20_increase_allowance(sender, spender, amount, expires))

DecreaseAllowance(sender, spender, amount, expires) ==
    RunCommand(cw20_decrease_allowance(sender, spender, amount, expires))

TransferFrom(spender, owner, recipient, amount) ==
    RunCommand(cw20_transfer_from(Ledger, spender, owner, recipient, amount))

BurnFrom(spender, owner, amount) ==
    RunCommand(cw20_burn_from(Ledger, spender, owner, amount))

SendFrom(spender, owner, contract, amount) ==
    RunCommand(cw20_send_from(Ledger, spender, owner, contract, amount))

Undelegate(caller, recipient, amount) ==
    RunCommand(cw20_undelegate(Ledger, caller, recipient, amount))

UpdateStakingAddress(sender, staking_address) ==
    RunCommand(cw20_update_staking_address(sender, staking_address))

\* the token ledger's code is replaced and its migrate entry point run
Migrate(picewise_linear_curve) == RunCommand(cw20_migrate(picewise_linear_curve))

\* the reward tokens received so far, distributed or not
FundedSoFar ==
    distribution.distributed_total + undistributed_rewards - distribution.withdrawable_total

\* a plain cw20 transfer of reward tokens to the staking contract
Fund(sender, amount) == Transfer(sender, StakingContract, amount)

\* the block time advances
Tick ==
    /\ now < MaxTime
    /\ now' = now + 1
    /\ UNCHANGED <<config, stake_config, stake, claims, members, total_votes, rewards,
                   total_rewards, total_staked, distribution, withdraw_adjustment, hooks,
                   admin, balances, delegated, height, members_changelog,
                   total_votes_changelog, staking, vesting, token_info, allowlist,
                   allowances, max_vesting_complexity, pool_u128>>

\* a new block: the block height advances
NewBlock ==
    /\ height < MaxHeight
    /\ height' = height + 1
    /\ UNCHANGED <<config, stake_config, stake, claims, members, total_votes, rewards,
                   total_rewards, total_staked, distribution, withdraw_adjustment, hooks,
                   admin, balances, delegated, now, members_changelog,
                   total_votes_changelog, staking, vesting, token_info, allowlist,
                   allowances, max_vesting_complexity, pool_u128>>

(***************************************************************************)
(* instantiate: the state after construction from an InstantiateMsg, with  *)
(* the token ledger's initial balances and its registered staking address. *)
(***************************************************************************)
Max(a, b) == IF a >= b THEN a ELSE b

\* env.block.height of the instantiation
InitialHeight == 1

LastWith(cfgs, period) ==
    cfgs[CHOOSE i \in DOMAIN cfgs :
            /\ cfgs[i].unbonding_period = period
            /\ \A j \in DOMAIN cfgs : cfgs[j].unbonding_period = period => j <= i]

\* the sum of a map's values
RECURSIVE SumMap(_)
SumMap(map) ==
    IF DOMAIN map = {} THEN 0
    ELSE LET k == CHOOSE k \in DOMAIN map : TRUE
         IN  map[k] + SumMap(Remove(map, k))

\* cw20-vesting instantiate, sent by `sender`, of a message that it accepts:
\* initial_balances holds the amount of each row by address and vesting the
\* schedule of the rows that have one (create_accounts stores the schedules
\* that have not run out at the block time)
cw20_instantiate(sender, msg) ==
    /\ now = 0
    /\ max_vesting_complexity = msg.max_curve_complexity
    /\ balances = msg.initial_balances
    /\ vesting = [a \in {a \in DOMAIN msg.vesting : ~fully_vested(msg.vesting[a])} |->
                      msg.vesting[a]]
    /\ token_info = [total_supply |-> SumMap(msg.initial_balances), mint |-> msg.mint]
    /\ allowlist = IF msg.allowed_vesters = Absent THEN <<sender>>
                   ELSE msg.allowed_vesters[1]
    /\ delegated = EmptyMap
    /\ allowances = EmptyMap

\* a token ledger instantiated by the minter, who may mint without a cap and
\* is the one allowed vester, with the given balances and no schedule
TokenMsg(initial_balances) ==
    [initial_balances |-> initial_balances, vesting |-> EmptyMap,
     mint |-> Some([minter |-> Minter, cap |-> Absent]),
     allowed_vesters |-> Absent, max_curve_complexity |-> 2]

\* both contracts instantiated, token_msg by the minter, and staking_address
\* registered with the token ledger (None: no address registered yet)
instantiate_ledgers(msg, token_msg, staking_address) ==
    LET periods == {msg.stake_config[i].unbonding_period : i \in DOMAIN msg.stake_config}
    IN  /\ cw20_instantiate(Minter, token_msg)
        /\ admin = msg.admin
        /\ height = InitialHeight
        /\ total_votes = 0
        /\ total_votes_changelog = write_change(EmptyMap, InitialHeight, Absent)
        /\ members_changelog = [a \in Accounts |-> EmptyMap]
        /\ total_staked = [staked |-> 0, unbonding |-> 0]
        /\ stake_config = [p \in periods |->
               [voting |-> LastWith(msg.stake_config, p).voting_multiplier,
                reward |-> LastWith(msg.stake_config, p).reward_multiplier,
                staked |-> 0]]
        /\ config = [cw20_contract |-> msg.cw20_contract,
                     tokens_per_power |-> msg.tokens_per_power,
                     min_bond |-> Max(msg.min_bond, 1),
                     unbonding_periods |-> [i \in DOMAIN msg.stake_config |->
                                               msg.stake_config[i].unbonding_period]]
        /\ distribution = [shares_per_point |-> FxZero, shares_leftover |-> 0,
                           distributed_total |-> 0, withdrawable_total |-> 0]
        /\ stake = [a \in Accounts |-> [p \in periods |-> DefaultBondingInfo]]
        /\ claims = [a \in Accounts |-> <<>>]
        /\ members = EmptyMap
        /\ rewards = EmptyMap
        /\ total_rewards = Absent
        /\ withdraw_adjustment = EmptyMap
        /\ hooks = Absent
        /\ staking = staking_address

instantiate_with(msg, initial_balances, staking_address) ==
    instantiate_ledgers(msg, TokenMsg(initial_balances), staking_address)

\* the staking contract instantiated and registered with the token ledger
instantiate(msg, initial_balances) ==
    instantiate_with(msg, initial_balances, StakingContract)

(***************************************************************************)
(* Spec: the stake ledger.  Two accounts bond, unbond, rebond and claim    *)
(* over two buckets while time passes; a1 holds Wallet tokens, a2 a single *)
(* token, which stays below min_bond.                                      *)
(***************************************************************************)
Users == {"a1", "a2"}

Amounts == 1 .. Wallet

StakeMsg ==
    [cw20_contract |-> Cw20Contract, tokens_per_power |-> 2, min_bond |-> 2,
     stake_config |-> <<[unbonding_period |-> 1, voting_multiplier |-> 100,
                         reward_multiplier |-> 200],
                        [unbonding_period |-> 2, voting_multiplier |-> 200,
                         reward_multiplier |-> 300]>>,
     admin |-> AdminAddr]

Periods == DOMAIN stake_config

Init ==
    /\ instantiate(StakeMsg,
                   [x \in Accounts \cup {StakingContract} |->
                       IF x = "a1" THEN Wallet ELSE IF x = "a2" THEN 1 ELSE 0])
    /\ pool_u128 = NoPoolU128

Next ==
    \/ \E a \in Users, amount \in Amounts, p \in Periods : Delegate(a, amount, p)
    \/ \E a \in Users, amount \in Amounts, p \in Periods : Unbond(a, amount, p)
    \/ \E a \in Users, amount \in Amounts, p, q \in Periods : Rebond(a, amount, p, q)
    \/ \E a \in Users : Claim(a)
    \/ Tick

Spec == Init /\ [][Next]_vars

(***************************************************************************)
(* SpecDist: the reward pool.  a1 (two tokens) stakes, unbonds and rebonds *)
(* over two buckets of reward multiplier 1 and 2 at a fixed time, a2 (one  *)
(* token) stakes, a3 sends up to MaxFunded reward tokens, and the accounts *)
(* distribute, withdraw (to a3) and a1 names a withdrawal delegate.        *)
(***************************************************************************)
DistMsg ==
    [cw20_contract |-> Cw20Contract, tokens_per_power |-> 1, min_bond |-> 0,
     stake_config |-> <<[unbonding_period |-> 1, voting_multiplier |-> 100,
                         reward_multiplier |-> 100],
                        [unbonding_period |-> 2, voting_multiplier |-> 100,
                         reward_multiplier |-> 200]>>,
     admin |-> AdminAddr]

Funder == "a3"

InitDist ==
    /\ instantiate(DistMsg,
                   [x \in Accounts \cup {StakingContract} |->
                       IF x = "a1" THEN 2 ELSE IF x = "a2" THEN 1
                       ELSE IF x = Funder THEN MaxFunded ELSE 0])
    /\ pool_u128 = NoPoolU128

NextDist ==
    \/ \E a \in Users, amount \in Amounts, p \in Periods : Delegate(a, amount, p)
    \/ \E amount \in Amounts, p \in Periods : Unbond("a1", amount, p)
    \/ \E amount \in Amounts, p, q \in Periods : Rebond("a1", amount, p, q)
    \/ \E amount \in 1 .. MaxFunded :
           FundedSoFar + amount <= MaxFunded /\ Fund(Funder, amount)
    \/ DistributeRewards(Funder)
    \/ \E a \in Accounts, o \in Accounts \cup {None} : WithdrawRewards(a, o, Funder)
    \/ \E d \in Accounts : DelegateWithdrawal("a1", d)

SpecDist == InitDist /\ [][NextDist]_vars

(***************************************************************************)
(* The reward pool at amounts beyond TLC's integers.  pool_u128 holds      *)
(* REWARDS, TOTAL_REWARDS, DISTRIBUTION and the withdrawn_rewards of       *)
(* WITHDRAW_ADJUSTMENT as u128 bytes: a1 and a2 took their reward powers   *)
(* before anything was distributed and keep them (shares_correction stays  *)
(* 0), and the amounts of `funds` arrive one by one, each distributed as   *)
(* it arrives.  overflow_checks tells the build of the contract: with or   *)
(* without overflow checks on the primitive integers.                      *)
(***************************************************************************)
\* the pool before its first distribution
PoolU128(a1, a2, funds, checks) ==
    [NoPoolU128 EXCEPT !.rewards = [a \in HoldersU128 |-> IF a = "a1" THEN a1 ELSE a2],
                       !.total_rewards = WAdd(a1, a2),
                       !.funds = funds,
                       !.overflow_checks = checks]

\* reward powers below and beyond 2^SHARES_SHIFT and 2^64, and amounts whose
\* points stay below 2^127
PoolsU128 ==
    {PoolU128(a1, a2, <<amount, ToWide(1)>>, checks) :
        a1 \in {ToWide(3), WAdd(Pow2(34), ToWide(1)), WAdd(Pow2(66), ToWide(3))},
        a2 \in {WZero, WAdd(Pow2(33), ToWide(5))},
        amount \in {Pow2(34), WAdd(Pow2(94), ToWide(12345))},
        checks \in BOOLEAN}

\* execute_distribute_rewards on u128 bytes, for the amount newly received:
\* the sum of the points wraps or panics with the build, the sums of the
\* Uint128 totals panic in every build
execute_distribute_rewards_u128(total, distr, amount, checks) ==
    IF total = WZero THEN Err("NoMembersToDistributeTo")
    ELSE IF amount = WZero THEN [err |-> "", distribution |-> distr]
    ELSE Only({
        IF points.panic THEN Err("Panic")
        ELSE Only({
            Only({IF per_point.panic \/ distributed.panic \/ withdrawable.panic
                  THEN Err("Panic")
                  ELSE [err |-> "",
                        distribution |->
                            [shares_per_point |-> per_point.value,
                             shares_leftover |-> WTrunc(split.r, U64Len),
                             distributed_total |-> distributed.value,
                             withdrawable_total |-> withdrawable.value]]
                  : per_point \in {AddU128(distr.shares_per_point, split.q, TRUE)},
                    distributed \in {AddU128(distr.distributed_total, amount, TRUE)},
                    withdrawable \in {AddU128(distr.withdrawable_total, amount, TRUE)}})
            : split \in {WDivMod(points.value, total)}})
        : points \in {AddU128(ShlU128(amount), distr.shares_leftover, checks)}})

\* withdrawable_rewards on u128 bytes, for shares_correction = 0 (the casts
\* to i128 and back then leave the product as it is): [panic, value]
withdrawable_rewards_u128(distr, points, withdrawn, checks) ==
    Only({IF product.panic THEN PanicU128
          ELSE SubU128(WShr(product.value), withdrawn, checks)
          : product \in {MulU128(distr.shares_per_point, points, checks)}})

\* execute_withdraw_rewards on u128 bytes, sent by the owner: the pool as the
\* command leaves it, and the reward paid
execute_withdraw_rewards_u128(pool, owner, checks) ==
    Only({
        IF w.panic THEN Err("Panic")
        ELSE IF w.value = WZero THEN [err |-> "", pool |-> pool, reward |-> WZero]
        ELSE Only({
            IF withdrawn.panic \/ withdrawable.panic THEN Err("Panic")
            ELSE [err |-> "",
                  pool |-> [pool EXCEPT
                      !.withdrawn_rewards[owner] = withdrawn.value,
                      !.distribution.withdrawable_total = withdrawable.value],
                  reward |-> w.value]
            : withdrawn \in {AddU128(pool.withdrawn_rewards[owner], w.value, TRUE)},
              withdrawable \in {SubU128(pool.distribution.withdrawable_total, w.value,
                                         TRUE)}})
        : w \in {withdrawable_rewards_u128(pool.distribution, pool.rewards[owner],
                                           pool.withdrawn_rewards[owner], checks)}})

\* the next amount arrives and is distributed
DistributeRewardsU128 ==
    /\ pool_u128.funds # <<>>
    /\ \E d \in {execute_distribute_rewards_u128(pool_u128.total_rewards,
                                                 pool_u128.distribution,
                                                 Head(pool_u128.funds),
                                                 pool_u128.overflow_checks)} :
           /\ d.err = ""
           /\ pool_u128' = [pool_u128 EXCEPT !.distribution = d.distribution,
                                             !.funds = Tail(@)]
    /\ UNCHANGED ledger_vars

\* an account withdraws all it can
WithdrawRewardsU128(owner) ==
    /\ pool_u128 # NoPoolU128
    /\ \E w \in {execute_withdraw_rewards_u128(pool_u128, owner,
                                                pool_u128.overflow_checks)} :
           /\ w.err = ""
           /\ w.reward # WZero
           /\ pool_u128' = w.pool
    /\ UNCHANGED ledger_vars

(***************************************************************************)
(* SpecDistU128: the commands of SpecDist on the reward pool of the       *)
(* ledger, or a pool of PoolsU128 whose amounts are distributed and        *)
(* withdrawn in any order.                                                 *)
(***************************************************************************)
InitDistU128 ==
    /\ instantiate(DistMsg,
                   [x \in Accounts \cup {StakingContract} |->
                       IF x = "a1" THEN 2 ELSE IF x = "a2" THEN 1
                       ELSE IF x = Funder THEN MaxFunded ELSE 0])
    /\ pool_u128 \in {NoPoolU128} \cup PoolsU128

NextDistU128 ==
    \/ \E a \in Users, amount \in Amounts, p \in Periods :
           pool_u128 = NoPoolU128 /\ Delegate(a, amount, p)
    \/ \E amount \in Amounts, p \in Periods :
           pool_u128 = NoPoolU128 /\ Unbond("a1", amount, p)
    \/ \E amount \in Amounts, p, q \in Periods :
           pool_u128 = NoPoolU128 /\ Rebond("a1", amount, p, q)
    \/ \E amount \in 1 .. MaxFunded :
           /\ pool_u128 = NoPoolU128
           /\ FundedSoFar + amount <= MaxFunded
           /\ Fund(Funder, amount)
    \/ pool_u128 = NoPoolU128 /\ DistributeRewards(Funder)
    \/ \E a \in Accounts, o \in Accounts \cup {None} :
           pool_u128 = NoPoolU128 /\ WithdrawRewards(a, o, Funder)
    \/ \E d \in Accounts : pool_u128 = NoPoolU128 /\ DelegateWithdrawal("a1", d)
    \/ DistributeRewardsU128
    \/ \E a \in HoldersU128 : WithdrawRewardsU128(a)

SpecDistU128 == InitDistU128 /\ [][NextDistU128]_vars

(***************************************************************************)
(* SpecSteady: constant reward powers.  a1 and a2 stake before the first   *)
(* distribution and nobody's stake moves afterwards; a3 sends up to        *)
(* MaxPool reward tokens, which are distributed and withdrawn in any       *)
(* order.                                                                  *)
(***************************************************************************)
InitSteady ==
    /\ instantiate(DistMsg,
                   [x \in Accounts \cup {StakingContract} |->
                       IF x = "a1" THEN Wallet ELSE IF x = "a2" THEN 1
                       ELSE IF x = Funder THEN MaxPool ELSE 0])
    /\ pool_u128 = NoPoolU128

NextSteady ==
    \/ \E a \in Users, amount \in Amounts, p \in Periods :
           distribution.distributed_total = 0 /\ Delegate(a, amount, p)
    \/ \E amount \in 1 .. MaxPool :
           FundedSoFar + amount <= MaxPool /\ Fund(Funder, amount)
    \/ DistributeRewards(Funder)
    \/ \E a \in Users, r \in {None, Funder} : WithdrawRewards(a, None, r)

SpecSteady == InitSteady /\ [][NextSteady]_vars

(***************************************************************************)
(* SpecHooks: the stake ledger of Spec at a fixed time, with the admin     *)
(* (and, refused, whoever is not) registering and removing two observers   *)
(* and naming another admin, or none.                                      *)
(***************************************************************************)
HookAddrs == {"h1", "h2"}

\* an unbonding period that is not in the configuration
UnknownPeriod == 3

NextHooks ==
    \/ \E a \in Users, n \in Amounts, p \in Periods : Delegate(a, n, p)
    \/ \E a \in Users, n \in Amounts, p \in Periods : Unbond(a, n, p)
    \/ \E a \in Users, n \in Amounts, p \in Periods, q \in Periods : Rebond(a, n, p, q)
    \/ \E s \in {AdminAddr, "a1"}, h \in HookAddrs : AddHook(s, h)
    \/ \E s \in {AdminAddr, "a1"}, h \in HookAddrs : RemoveHook(s, h)
    \/ \E s \in {AdminAddr, "a1"}, n \in {AdminAddr, "a1", None} : UpdateAdmin(s, n)

SpecHooks == Init /\ [][NextHooks]_vars

(***************************************************************************)
(* SpecHeights: bonding and unbonding over several blocks, for the         *)
(* historical queries of the voting power.                                 *)
(***************************************************************************)
NextHeights ==
    \/ \E a \in Users, n \in Amounts, p \in Periods : Delegate(a, n, p)
    \/ \E a \in Users, n \in Amounts, p \in Periods : Unbond(a, n, p)
    \/ NewBlock

SpecHeights == InitDist /\ [][NextHeights]_vars

(***************************************************************************)
(* SpecNet: rebonds whose vote deltas can cancel.  The shorter bucket has  *)
(* voting multiplier 1 and the longer one 1/2 (reward multipliers 1 and 2)  *)
(* at one token per power; a1 (two tokens) stakes and rebonds, a3 sends    *)
(* reward tokens that are distributed, and the admin registers observers.  *)
(***************************************************************************)
NetMsg ==
    [cw20_contract |-> Cw20Contract, tokens_per_power |-> 1, min_bond |-> 1,
     stake_config |-> <<[unbonding_period |-> 1, voting_multiplier |-> 100,
                         reward_multiplier |-> 100],
                        [unbonding_period |-> 2, voting_multiplier |-> 50,
                         reward_multiplier |-> 200]>>,
     admin |-> AdminAddr]

InitNet ==
    /\ instantiate(NetMsg,
                   [x \in Accounts \cup {StakingContract} |->
                       IF x = "a1" THEN 2 ELSE IF x = Funder THEN MaxFunded ELSE 0])
    /\ pool_u128 = NoPoolU128

NextNet ==
    \/ \E n \in Amounts, p \in Periods : Delegate("a1", n, p)
    \/ \E n \in Amounts, p \in Periods, q \in Periods : Rebond("a1", n, p, q)
    \/ \E n \in 1 .. MaxFunded : FundedSoFar + n <= MaxFunded /\ Fund(Funder, n)
    \/ DistributeRewards(Funder)
    \/ \E h \in HookAddrs : AddHook(AdminAddr, h)

SpecNet == InitNet /\ [][NextNet]_vars

(***************************************************************************)
(* SpecReceive: the stake ledger of Spec without rebonds, with accounts    *)
(* that send ReceiveDelegation notifications themselves, in their own name *)
(* or in another's, instead of delegating through the token contract.      *)
(***************************************************************************)
NextReceive ==
    \/ \E a \in Users, n \in Amounts, p \in Periods : Delegate(a, n, p)
    \/ \E c \in Users, a \in Users, n \in Amounts, p \in Periods :
           ReceiveDelegation(c, a, n, p)
    \/ \E a \in Users, n \in Amounts, p \in Periods : Unbond(a, n, p)
    \/ \E a \in Users : Claim(a)
    \/ Tick

SpecReceive == Init /\ [][NextReceive]_vars

(***************************************************************************)
(* SpecPool: the reward pool over time.  a1 (two tokens) stakes, unbonds,  *)
(* rebonds and claims over the two buckets of SpecNet while time passes,   *)
(* and a3 sends up to MaxFunded reward tokens, which are distributed.      *)
(***************************************************************************)
NextPool ==
    \/ \E n \in Amounts, p \in Periods : Delegate("a1", n, p)
    \/ \E n \in Amounts, p \in Periods : Unbond("a1", n, p)
    \/ \E n \in Amounts, p \in Periods, q \in Periods : Rebond("a1", n, p, q)
    \/ Claim("a1")
    \/ \E n \in 1 .. MaxFunded : FundedSoFar + n <= MaxFunded /\ Fund(Funder, n)
    \/ DistributeRewards(Funder)
    \/ Tick

SpecPool == InitNet /\ [][NextPool]_vars

(***************************************************************************)
(* SpecAny: the stake ledger instantiated from any list of up to           *)
(* MaxBuckets bucket configurations over two periods and two voting        *)
(* multipliers, lists that name a period twice included; a1 and a2 then    *)
(* bond, unbond and rebond.                                                *)
(***************************************************************************)
BucketChoices ==
    {[unbonding_period |-> p, voting_multiplier |-> v, reward_multiplier |-> 100] :
        p \in {1, 2}, v \in {100, 200}}

InstantiateInputs ==
    UNION {[1 .. k -> BucketChoices] : k \in 1 .. MaxBuckets}

InitAny ==
    /\ \E cfgs \in InstantiateInputs :
           instantiate([StakeMsg EXCEPT !.stake_config = cfgs],
                       [x \in Accounts \cup {StakingContract} |->
                           IF x = "a1" THEN 2 ELSE IF x = "a2" THEN 1 ELSE 0])
    /\ pool_u128 = NoPoolU128

NextAny ==
    \/ \E a \in Users, n \in Amounts, p \in Periods : Delegate(a, n, p)
    \/ \E a \in Users, n \in Amounts, p \in Periods : Unbond(a, n, p)
    \/ \E a \in Users, n \in Amounts, p \in Periods, q \in Periods : Rebond(a, n, p, q)

SpecAny == InitAny /\ [][NextAny]_vars

(***************************************************************************)
(* SpecToken: the token ledger's commands.  a1 holds Wallet tokens and is  *)
(* the allowed vester, a2 holds one token; the minter may mint one token   *)
(* more until the cap is replaced.  No staking address is registered at    *)
(* first; the minter (and, refused, a1) registers the staking contract or  *)
(* the account a3.  a1 delegates to the registered address; the accounts   *)
(* move, send, burn and mint tokens, with and without a vesting schedule,  *)
(* and send Undelegate messages themselves; time passes.                   *)
(***************************************************************************)
\* a token that is released between the times 1 and 2
VestingSchedule == SaturatingLinear(1, 1, 2, 0)

\* VestingSchedule in three steps, more than the ledger allows
SteppedSchedule == PiecewiseLinear(<<<<1, 1>>, <<2, 1>>, <<3, 0>>>>)

\* a cap on the supply that opens at time 2, in steps
SteppedCap == PiecewiseLinear(<<<<1, Wallet + 1>>, <<2, Wallet + 2>>>>)

TokenCapMsg ==
    [initial_balances |-> [x \in Accounts \cup {StakingContract} |->
                              IF x = "a1" THEN Wallet ELSE IF x = "a2" THEN 1 ELSE 0],
     vesting |-> EmptyMap,
     mint |-> Some([minter |-> Minter, cap |-> Some(Constant(Wallet + 2))]),
     allowed_vesters |-> Some(<<"a1">>),
     max_curve_complexity |-> 2]

InitToken ==
    /\ instantiate_ledgers(StakeMsg, TokenCapMsg, None)
    /\ pool_u128 = NoPoolU128

NextToken ==
    \/ \E s \in {Minter, "a1"}, addr \in {StakingContract, "a3"} :
           UpdateStakingAddress(s, addr)
    \/ \E n \in Amounts : Delegate("a1", n, 1)
    \/ \E c \in Accounts, a \in Users, n \in Amounts : Undelegate(c, a, n)
    \/ \E s \in Users, r \in {"a3", StakingContract} : Transfer(s, r, 1)
    \/ \E s \in Users, schedule \in {VestingSchedule, SteppedSchedule, Constant(1)} :
           TransferVesting(s, "a2", 1, schedule)
    \/ Burn("a2", 1)
    \/ \E s \in {Minter, "a1"} : Mint(s, "a2", 1)
    \/ \E s \in {Minter, "a1"} : UpdateMinter(s, "a1")
    \/ \E c \in {"a3", StakingContract} : Send("a1", c, 1)
    \/ \E s \in Users : AllowVester(s, "a2")
    \/ \E s \in Users : DenyVester(s, "a1")
    \/ \E curve \in {SteppedCap, VestingSchedule} : Migrate(curve)
    \/ Tick

SpecToken == InitToken /\ [][NextToken]_vars

(***************************************************************************)
(* SpecVesting: the two ledgers run together, the staking contract         *)
(* registered.  a1 delegates its Wallet tokens, unbonds and claims over    *)
(* time; a3, the allowed vester, sends the staking contract a token that   *)
(* is released between the times 2 and 3; the token is distributed as a    *)
(* reward and a1 withdraws it.  a1 grants a3 an allowance, with and        *)
(* without an expiration, and a3 moves, sends and burns a1's tokens with   *)
(* it (and tries the staking contract's, for which it has none).           *)
(***************************************************************************)
\* a token that is released between the times 2 and 3
LateSchedule == SaturatingLinear(2, 1, 3, 0)

VestingMsg ==
    [initial_balances |-> [x \in Accounts \cup {StakingContract} |->
                              IF x = "a1" THEN Wallet ELSE IF x = "a3" THEN 1 ELSE 0],
     vesting |-> EmptyMap,
     mint |-> Some([minter |-> Minter, cap |-> Absent]),
     allowed_vesters |-> Some(<<"a3">>),
     max_curve_complexity |-> 2]

InitVesting ==
    /\ instantiate_ledgers(StakeMsg, VestingMsg, StakingContract)
    /\ pool_u128 = NoPoolU128

NextVesting ==
    \/ \E n \in Amounts, p \in Periods : Delegate("a1", n, p)
    \/ \E n \in Amounts, p \in Periods : Unbond("a1", n, p)
    \/ Claim("a1")
    \/ \E s \in {"a1", "a3"} : TransferVesting(s, StakingContract, 1, LateSchedule)
    \/ DistributeRewards("a1")
    \/ WithdrawRewards("a1", None, None)
    \/ \E o \in {"a1", "a3"}, e \in {Absent, Some([at_time |-> 2])} :
           IncreaseAllowance(o, "a3", 1, e)
    \/ \E e \in {Absent, Some([at_height |-> InitialHeight])} :
           DecreaseAllowance("a1", "a3", 1, e)
    \/ \E o \in {"a1", StakingContract} : TransferFrom("a3", o, "a2", 1)
    \/ BurnFrom("a3", "a1", 1)
    \/ \E c \in {"a2", StakingContract} : SendFrom("a3", "a1", c, 1)
    \/ Tick

SpecVesting == InitVesting /\ [][NextVesting]_vars

(***************************************************************************)
(* SpecFrame: every command of two stakers at a fixed time.  The shorter   *)
(* bucket has unbonding period 0, whose claims mature at once, so that     *)
(* claims are released without time passing; a1 (two tokens) and a2 (one   *)
(* token) bond, unbond and claim, a1 rebonds and names a withdrawal        *)
(* delegate, a3 sends up to MaxFunded reward tokens, which are distributed *)
(* and withdrawn by owners and delegates.                                  *)
(***************************************************************************)
FrameMsg ==
    [cw20_contract |-> Cw20Contract, tokens_per_power |-> 1, min_bond |-> 1,
     stake_config |-> <<[unbonding_period |-> 0, voting_multiplier |-> 100,
                         reward_multiplier |-> 100],
                        [unbonding_period |-> 1, voting_multiplier |-> 200,
                         reward_multiplier |-> 200]>>,
     admin |-> AdminAddr]

InitFrame ==
    /\ instantiate(FrameMsg,
                   [x \in Accounts \cup {StakingContract} |->
                       IF x = "a1" THEN 2 ELSE IF x = "a2" THEN 1
                       ELSE IF x = Funder THEN MaxFunded ELSE 0])
    /\ pool_u128 = NoPoolU128

NextFrame ==
    \/ \E a \in Users, n \in Amounts, p \in Periods : Delegate(a, n, p)
    \/ \E a \in Users, n \in Amounts, p \in Periods : Unbond(a, n, p)
    \/ \E n \in Amounts, p \in Periods, q \in Periods : Rebond("a1", n, p, q)
    \/ \E a \in Users : Claim(a)
    \/ \E n \in 1 .. MaxFunded : FundedSoFar + n <= MaxFunded /\ Fund(Funder, n)
    \/ DistributeRewards(Funder)
    \/ \E a \in Users, o \in Users : WithdrawRewards(a, o, Funder)
    \/ \E d \in Users : DelegateWithdrawal("a1", d)

SpecFrame == InitFrame /\ [][NextFrame]_vars

(***************************************************************************)
(* SpecLock: rebonding along a chain of buckets.  Three buckets of         *)
(* unbonding periods 1, 2 and 3; a1 (two tokens) bonds, rebonds in both    *)
(* directions, unbonds and claims while time passes.                       *)
(***************************************************************************)
LockMsg ==
    [cw20_contract |-> Cw20Contract, tokens_per_power |-> 1, min_bond |-> 1,
     stake_config |-> <<[unbonding_period |-> 1, voting_multiplier |-> 100,
                         reward_multiplier |-> 100],
                        [unbonding_period |-> 2, voting_multiplier |-> 100,
                         reward_multiplier |-> 100],
                        [unbonding_period |-> 3, voting_multiplier |-> 100,
                         reward_multiplier |-> 100]>>,
     admin |-> AdminAddr]

InitLock ==
    /\ instantiate(LockMsg,
                   [x \in Accounts \cup {StakingContract} |-> IF x = "a1" THEN 2 ELSE 0])
    /\ pool_u128 = NoPoolU128

NextLock ==
    \/ \E n \in Amounts, p \in Periods : Delegate("a1", n, p)
    \/ \E n \in Amounts, p \in Periods : Unbond("a1", n, p)
    \/ \E n \in Amounts, p \in Periods, q \in Periods : Rebond("a1", n, p, q)
    \/ Claim("a1")
    \/ Tick

SpecLock == InitLock /\ [][NextLock]_vars

(***************************************************************************)
(* Properties.                                                             *)
(***************************************************************************)
RECURSIVE SumOver(_, _)
SumOver(f, S) ==
    IF S = {} THEN 0
    ELSE LET x == CHOOSE y \in S : TRUE IN f[x] + SumOver(f, S \ {x})

\* the power the design assigns to a stake s under a multiplier m (in hundredths)
ClaimedPower(s, m) ==
    IF s < config.min_bond THEN 0
    ELSE (s * m) \div (DecimalOne * config.tokens_per_power)

\* free stake plus the locked entries that have matured at time t
Capacity(info, t) ==
    info.stake + SumOver([i \in DOMAIN info.locked_tokens |->
                             IF info.locked_tokens[i][1] <= t
                             THEN info.locked_tokens[i][2] ELSE 0],
                         DOMAIN info.locked_tokens)

\* C1: in every reachable state, for every bucket the bucket's staked total
\* equals the sum over all accounts of the account's total stake in that
\* bucket (free stake plus every locked entry), hence the two sums over all
\* buckets agree, whether the commands before succeeded or were rejected.
C1_Conservation ==
    /\ \A p \in DOMAIN stake_config :
           stake_config[p].staked =
               SumOver([a \in Accounts |-> total_stake(stake[a][p])], Accounts)
    /\ SumOver([p \in DOMAIN stake_config |-> stake_config[p].staked],
               DOMAIN stake_config)
         = SumOver([a \in Accounts |->
                       SumOver([p \in DOMAIN stake_config |-> total_stake(stake[a][p])],
                               DOMAIN stake_config)],
                   Accounts)

\* C1 witness: both accounts hold stake, one of them with a locked entry left
\* by a rebond, and some stake has been unbonded.
C1_Witness ==
    /\ stake["a1"][1].locked_tokens # <<>>
    /\ total_stake(stake["a2"][1]) > 0
    /\ total_staked.unbonding > 0

\* C2: in every reachable state and for every (account, bucket) record, the
\* stored votes equal power(total_stake, voting multiplier) and the stored
\* rewards equal power(total_stake, reward multiplier), with power(s, m) = 0
\* if s < min_bond and floor(s * m / tokens_per_power) otherwise; the passage
\* of time does not disturb it.
C2_PowerDeterminism ==
    \A a \in Accounts, p \in DOMAIN stake_config :
        /\ stake[a][p].votes =
               ClaimedPower(total_stake(stake[a][p]), stake_config[p].voting)
        /\ stake[a][p].rewards =
               ClaimedPower(total_stake(stake[a][p]), stake_config[p].reward)

\* C2 witness: a record with power whose locked entry has matured while it
\* still sits in the locked list.
C2_Witness ==
    \E a \in Accounts, p \in DOMAIN stake_config :
        /\ stake[a][p].votes > 0
        /\ stake[a][p].rewards > stake[a][p].votes
        /\ \E i \in DOMAIN stake[a][p].locked_tokens :
               stake[a][p].locked_tokens[i][1] <= now

\* the destination record of a successful Rebond, before and after
RebondCases ==
    {c \in [a : Users, amount : Amounts, from : DOMAIN stake_config,
            to : DOMAIN stake_config] :
        \A r \in execute_rebond(c.a, c.amount, c.from, c.to) : r.err = ""}

\* the destination record after each answer the handler may give
RebondAfter(c) == {r.stake[c.a][c.to] : r \in execute_rebond(c.a, c.amount, c.from, c.to)}

\* the moved amount is locked in the destination for exactly `wait` seconds
LockedFor(c, wait) ==
    \A after \in RebondAfter(c) :
    LET before == stake[c.a][c.to]
    IN  /\ \A t \in now .. now + wait - 1 :
               /\ Capacity(after, t) = Capacity(before, t)
               /\ ~release_stake(after, t, Capacity(before, t) + 1).ok
        /\ \A t \in now + wait .. now + wait + 1 :
               /\ Capacity(after, t) = Capacity(before, t) + c.amount
               /\ release_stake(after, t, Capacity(before, t) + c.amount).ok
        /\ total_locked(after, now) = total_locked(before, now) + c.amount

\* the moved amount is free stake of the destination at once
FreeAtOnce(c) ==
    \A after \in RebondAfter(c) :
    LET before == stake[c.a][c.to]
    IN  /\ Capacity(after, now) = Capacity(before, now) + c.amount
        /\ release_stake(after, now, Capacity(before, now) + c.amount).ok
        /\ total_locked(after, now) = total_locked(before, now)

\* C3 (as the code has it): a Rebond from a longer to a shorter period
\* credits the moved amount as a locked entry for exactly
\* long period - short period seconds, and releasing it from the destination
\* before then fails; a Rebond from a shorter to a longer period credits it
\* as free stake that can be released at the same time.
C3_RebondLock ==
    \A c \in RebondCases :
        /\ c.from > c.to => LockedFor(c, c.from - c.to)
        /\ c.from < c.to => FreeAtOnce(c)

\* C3 as stated: longer to shorter is free at once, shorter to longer is
\* locked for long period - short period seconds.
C3_AsStated ==
    \A c \in RebondCases :
        /\ c.from > c.to => FreeAtOnce(c)
        /\ c.from < c.to => LockedFor(c, c.to - c.from)

\* C3 witness: a rebond into the shorter bucket has left a lock that has not
\* matured, and stake can be rebonded in either direction.
C3_Witness ==
    /\ \E a \in Users : total_locked(stake[a][1], now) > 0
    /\ \E c, d \in RebondCases : c.from > c.to /\ d.from < d.to

\* C4: for an existing bucket and amount > 0, Unbond (and the debit side of
\* Rebond) succeeds if and only if amount <= free stake + the record's locked
\* entries with unlock time <= now; otherwise it fails with a subtraction
\* overflow, so an amount that reaches into a lock that has not matured
\* fails and the same command succeeds once now has reached the unlock time.
C4_ReleaseCapacity ==
    \A a \in Users, amount \in Amounts, p \in DOMAIN stake_config :
        LET cap == Capacity(stake[a][p], now)
            u == execute_unbond(a, amount, p)
        IN  /\ u.err = "" <=> amount <= cap
            /\ amount > cap => u.err = "Overflow"
            /\ \A q \in DOMAIN stake_config \ {p} :
                   \A r \in execute_rebond(a, amount, p, q) :
                       /\ r.err = "" <=> amount <= cap
                       /\ amount > cap => r.err = "Overflow"

\* C4 witness: a record with no free stake and two locked entries, one
\* matured and one not: one token can be released, two cannot.
C4_Witness ==
    \E a \in Users, p \in DOMAIN stake_config :
        /\ stake[a][p].stake = 0
        /\ Capacity(stake[a][p], now) = 1
        /\ total_locked(stake[a][p], now) > 0
        /\ execute_unbond(a, 1, p).err = ""
        /\ execute_unbond(a, 2, p).err = "Overflow"

\* C8: the min_bond cut-off is applied to the record's total stake, not to
\* the resulting power: below min_bond the voting and reward power are 0, from
\* min_bond on the power is floor(stake * multiplier / tokens_per_power) even
\* if that is below min_bond (min_bond = tokens_per_power = 1000: 999 tokens
\* give 0, 1000 give 1), and an unbond that leaves less than min_bond drops
\* the power to 0.
C8_MinBondOnStake ==
    /\ \A a \in Accounts, p \in DOMAIN stake_config :
           LET s == total_stake(stake[a][p])
               info == stake[a][p]
           IN  /\ s < config.min_bond => info.votes = 0 /\ info.rewards = 0
               /\ s >= config.min_bond =>
                      /\ info.votes = (s * stake_config[p].voting)
                                          \div (DecimalOne * config.tokens_per_power)
                      /\ info.rewards = (s * stake_config[p].reward)
                                            \div (DecimalOne * config.tokens_per_power)
    /\ \A a \in Users, amount \in Amounts, p \in DOMAIN stake_config :
           LET u == execute_unbond(a, amount, p)
           IN  (u.err = "" /\ total_stake(u.stake[a][p]) < config.min_bond) =>
                   u.stake[a][p].votes = 0 /\ u.stake[a][p].rewards = 0
    /\ LET thousand == [config EXCEPT !.min_bond = 1000, !.tokens_per_power = 1000]
       IN  /\ calc_power(thousand, 999, DecimalOne) = 0
           /\ calc_power(thousand, 1000, DecimalOne) = 1

\* C8 witness: one record holds min_bond tokens and has a voting power below
\* min_bond, another holds less than min_bond where the multiplier alone
\* would give power, and the first can unbond below min_bond.
C8_Witness ==
    /\ total_stake(stake["a1"][1]) = config.min_bond
    /\ stake["a1"][1].votes \in 1 .. config.min_bond - 1
    /\ total_stake(stake["a2"][2]) \in 1 .. config.min_bond - 1
    /\ (total_stake(stake["a2"][2]) * stake_config[2].voting)
           \div (DecimalOne * config.tokens_per_power) > 0
    /\ execute_unbond("a1", 1, 1).err = ""

\* the adjustment the reward computations use for an account (the stored one,
\* or the default of an account without one)
AdjustmentOf(a) == Get(withdraw_adjustment, a, DefaultAdjustment(a))

\* the pool after a DistributeRewards that distributes something, if it would
DistributeCases ==
    LET d == execute_distribute_rewards(Funder)
    IN  IF d.err = "" /\ "distribution" \in DOMAIN d THEN {d.distribution} ELSE {}

\* what the distribution leading to pool nd adds to an account's withdrawable
\* amount
Gain(a, nd) ==
    withdrawable_rewards(a, nd, AdjustmentOf(a)).amount
        - withdrawable_rewards(a, distribution, AdjustmentOf(a)).amount

\* no account holds a fraction of a token in points
NoFractions ==
    \A a \in Accounts :
        LET pts == reward_points(a, distribution, AdjustmentOf(a))
        IN  pts.h = 0 /\ pts.l = 0

\* a full withdrawal by the owner pays exactly the withdrawable amount
FullWithdrawalPays ==
    \A a \in DOMAIN withdraw_adjustment :
        LET w == execute_withdraw_rewards(a, None, None)
            due == query_withdrawable_rewards(a)
        IN  /\ w.err = ""
            /\ due >= 0
            /\ due > 0 => w.msgs = <<[type |-> "Transfer", to |-> config.cw20_contract,
                                      recipient |-> a, amount |-> due]>>
            /\ due = 0 => w.msgs = <<>>

\* the shares of a distribution of R tokens over total power P are accounted
\* for: the leftover is below P and enters the next distribution
LeftoverCarried(nd) ==
    LET P == total_rewards[1]
        R == nd.distributed_total - distribution.distributed_total
    IN  /\ nd.shares_leftover \in 0 .. P - 1
        /\ FxAdd(FxMulInt(nd.shares_per_point, P), FxShlAdd(0, nd.shares_leftover))
             = FxAdd(FxAdd(FxMulInt(distribution.shares_per_point, P),
                           FxShlAdd(0, distribution.shares_leftover)),
                     FxShlAdd(R, 0))

\* the ceiling of p / 2^SHARES_SHIFT
ShareCeil(p) == IF p = 0 THEN 0 ELSE (((p - 1) \div LimbBase) \div LimbBase) + 1

\* what an account of a u128 pool has been paid and can still withdraw
EarnedU128(a) ==
    WAdd(pool_u128.withdrawn_rewards[a],
         withdrawable_rewards_u128(pool_u128.distribution, pool_u128.rewards[a],
                                   pool_u128.withdrawn_rewards[a],
                                   pool_u128.overflow_checks).value)

\* y <= floor(R * p / P) <= y + c, without the division:
\* y * P <= R * p < (y + c + 1) * P
WithinOfFloor(y, c, R, p, P) ==
    /\ WLeq(WMul(y, P), WMul(R, p))
    /\ WLess(WMul(R, p), WMul(WAdd(WAdd(y, c), ToWide(1)), P))

\* a u128 pool: every withdrawal succeeds; the stored leftover is below the
\* total power P and the shares handed out and left over never exceed the
\* shares distributed, and are all of them when P <= 2^64 (the leftover is
\* stored as a u64); after the first distribution, of R tokens, each account
\* has been paid or can withdraw floor(R * p / P) less at most the ceiling of
\* p / 2^SHARES_SHIFT, and the accounts together at most R
SingleDistributionU128 ==
    \E P \in {pool_u128.total_rewards}, D \in {pool_u128.distribution} :
    \E R \in {D.distributed_total} :
    \E shares \in {WAdd(WMul(D.shares_per_point, P), D.shares_leftover)} :
        /\ \A a \in HoldersU128 :
               execute_withdraw_rewards_u128(pool_u128, a,
                                             pool_u128.overflow_checks).err = ""
        /\ WLess(D.shares_leftover, P)
        /\ WLeq(shares, WShl(R))
        /\ WLeq(P, Pow2(64)) => shares = WShl(R)
        /\ Len(pool_u128.funds) = 1 =>
               /\ \A a \in HoldersU128 :
                      \E p \in {pool_u128.rewards[a]} :
                          WithinOfFloor(EarnedU128(a),
                                        WShr(WAdd(p, WSub(Pow2(SHARES_SHIFT), ToWide(1)))),
                                        R, p, P)
               /\ WLeq(WAdd(EarnedU128("a1"), EarnedU128("a2")), R)

\* C5 (as the code has it): starting from a pool with zero leftover in which
\* no account holds a fraction of a token (as before the first distribution),
\* one DistributeRewards of R tokens under total power P, followed by full
\* withdrawals, pays account i at most floor(R * p_i / P) and at least that
\* less the ceiling of p_i / 2^32 (one token less at most while p_i <= 2^32);
\* the payouts sum to at most R; the leftover stored is at most P - 1 and is
\* carried into the next distribution.  Checked on the pool of the ledger
\* and, beyond TLC's integers, on the pools of PoolsU128.
C5_SingleDistribution ==
    /\ FullWithdrawalPays
    /\ \A nd \in DistributeCases :
           LET P == total_rewards[1]
               R == nd.distributed_total - distribution.distributed_total
           IN  /\ LeftoverCarried(nd)
               /\ (distribution.shares_leftover = 0 /\ NoFractions) =>
                      /\ \A a \in Accounts :
                             Gain(a, nd) \in
                                 ((R * Get(rewards, a, 0)) \div P)
                                     - ShareCeil(Get(rewards, a, 0))
                                 .. (R * Get(rewards, a, 0)) \div P
                      /\ \A a \in Accounts : Gain(a, nd) >= 0
                      /\ SumOver([a \in Accounts |-> Gain(a, nd)], Accounts) <= R
    /\ pool_u128 # NoPoolU128 => SingleDistributionU128

\* C5 as stated: from a pool with zero leftover, account i is paid exactly
\* floor(R * p_i / P), the payouts sum to at most R and the leftover is at
\* most P - 1.
C5_AsStated ==
    /\ \A nd \in DistributeCases :
           LET P == total_rewards[1]
               R == nd.distributed_total - distribution.distributed_total
           IN  distribution.shares_leftover = 0 =>
                   /\ \A a \in Accounts : Gain(a, nd) = (R * Get(rewards, a, 0)) \div P
                   /\ SumOver([a \in Accounts |-> Gain(a, nd)], Accounts) <= R
                   /\ nd.shares_leftover <= P - 1
    /\ (pool_u128 # NoPoolU128 /\ Len(pool_u128.funds) = 1) =>
           /\ \A a \in HoldersU128 :
                  WithinOfFloor(EarnedU128(a), WZero,
                                pool_u128.distribution.distributed_total,
                                pool_u128.rewards[a], pool_u128.total_rewards)
           /\ WLeq(WAdd(EarnedU128("a1"), EarnedU128("a2")),
                   pool_u128.distribution.distributed_total)
           /\ WLess(pool_u128.distribution.shares_leftover, pool_u128.total_rewards)

\* C5 witness: a1 alone holds the total power of 2^34 + 1, 2^34 tokens were
\* distributed once, a leftover is stored, and a1 has withdrawn all it could:
\* 2^34 - 4 tokens, where floor(R * p / P) is 2^34.
C5_Witness ==
    /\ pool_u128.rewards["a1"] = WAdd(Pow2(34), ToWide(1))
    /\ pool_u128.total_rewards = pool_u128.rewards["a1"]
    /\ Len(pool_u128.funds) = 1
    /\ pool_u128.distribution.distributed_total = Pow2(34)
    /\ pool_u128.distribution.shares_leftover # WZero
    /\ pool_u128.withdrawn_rewards["a1"] = WSub(Pow2(34), ToWide(4))
    /\ EarnedU128("a1") = pool_u128.withdrawn_rewards["a1"]

\* the total an account has been paid and can still withdraw
Earned(a) == AdjustmentOf(a).withdrawn_rewards + query_withdrawable_rewards(a)

C7_Step ==
    \A a \in Accounts :
        LET D == Get(rewards', a, 0) - Get(rewards, a, 0)
        IN  /\ D # 0 =>
                /\ a \in DOMAIN withdraw_adjustment'
                /\ withdraw_adjustment'[a].shares_correction
                     = FxSub(AdjustmentOf(a).shares_correction,
                             FxMulInt(distribution.shares_per_point, D))
                /\ query_withdrawable_rewards(a)' = query_withdrawable_rewards(a)
                /\ distribution' = distribution
            /\ distribution'.shares_per_point # distribution.shares_per_point =>
                /\ D = 0
                /\ FxSub(reward_points(a, distribution', AdjustmentOf(a)),
                         reward_points(a, distribution, AdjustmentOf(a)))
                     = FxMulInt(FxSub(distribution'.shares_per_point,
                                      distribution.shares_per_point),
                                Get(rewards, a, 0))

\* C7: every step keeps the correction rule: a change of reward power leaves
\* the withdrawable amount as it was.
C7_CorrectionRule == [][C7_Step]_vars

\* C7 witness: an account whose reward power changed after a distribution
\* (its correction is not zero) with rewards from before the change still
\* withdrawable, and a later distribution made.
C7_Witness ==
    \E a \in DOMAIN withdraw_adjustment :
        /\ withdraw_adjustment[a].shares_correction # FxZero
        /\ query_withdrawable_rewards(a) > 0
        /\ distribution.distributed_total = MaxFunded

\* C9: in every reachable state and for every account,
\* shares_per_point * reward power + shares_correction is non-negative and
\* its value shifted right by SHARES_SHIFT is at least withdrawn_rewards, so
\* the withdrawable amount never wraps.
C9_PointsCoverWithdrawn ==
    \A a \in Accounts :
        LET pts == reward_points(a, distribution, AdjustmentOf(a))
        IN  /\ FxNonNeg(pts)
            /\ pts.w >= AdjustmentOf(a).withdrawn_rewards
            /\ ~withdrawable_rewards(a, distribution, AdjustmentOf(a)).wrapped
            /\ query_withdrawable_rewards(a) >= 0

\* C9 witness: an account with a negative and an account with a positive
\* correction, one of which has withdrawn rewards.
C9_Witness ==
    /\ \E a \in DOMAIN withdraw_adjustment :
           withdraw_adjustment[a].shares_correction.w < 0
    /\ \E a \in DOMAIN withdraw_adjustment :
           /\ FxNonNeg(withdraw_adjustment[a].shares_correction)
           /\ withdraw_adjustment[a].shares_correction # FxZero
           /\ withdraw_adjustment[a].withdrawn_rewards > 0

\* C10 as stated: a WithdrawRewards naming owner O by a caller that is neither
\* O nor O's registered delegate fails with Unauthorized.
C10_AsStated ==
    \A sender \in Accounts, owner \in Accounts, receiver \in {None, Funder} :
        sender \notin {owner, query_delegated(owner)} =>
            execute_withdraw_rewards(sender, owner, receiver).err = "Unauthorized"

\* C10, for owners that have an adjustment record: a WithdrawRewards by a
\* caller that is neither the owner nor the owner's current delegate fails
\* with Unauthorized, and a call that succeeds comes from one of the two.
C10_WithRecord ==
    \A sender \in Accounts, owner \in DOMAIN withdraw_adjustment,
       receiver \in {None, Funder} :
        LET w == execute_withdraw_rewards(sender, owner, receiver)
        IN  /\ sender \notin {owner, withdraw_adjustment[owner].delegated} =>
                   w.err = "Unauthorized"
            /\ w.err = "" => sender \in {owner, withdraw_adjustment[owner].delegated}

\* C10: an owner with rewards to withdraw whose delegate is a third account,
\* so that a former delegate is refused.
C10_Replaced ==
    /\ "a1" \in DOMAIN withdraw_adjustment
    /\ withdraw_adjustment["a1"].delegated = Funder
    /\ query_withdrawable_rewards("a1") > 0
    /\ execute_withdraw_rewards("a2", "a1", None).err = "Unauthorized"
    /\ execute_withdraw_rewards(Funder, "a1", None).err = ""

\* the transfer a withdrawal of `due` tokens to `recipient` emits
RewardTransfer(recipient, due) ==
    IF due = 0 THEN <<>>
    ELSE <<[type |-> "Transfer", to |-> config.cw20_contract,
            recipient |-> recipient, amount |-> due]>>

\* C11: an account that never called DelegateWithdrawal is its own delegate;
\* the delegate d named by owner O may call WithdrawRewards{owner: O}, and O's
\* full withdrawable amount goes to the receiver, by default the caller d;
\* DelegateWithdrawal emits no message and changes only the delegate of O's
\* record: not shares_correction, not withdrawn_rewards, no pool total.
C11_DelegateWithdraws ==
    /\ \A a \in Accounts \ {"a1"} : query_delegated(a) = a
    /\ \A owner \in DOMAIN withdraw_adjustment :
           LET d == query_delegated(owner)
               due == query_withdrawable_rewards(owner)
               byDefault == execute_withdraw_rewards(d, owner, None)
               toFunder == execute_withdraw_rewards(d, owner, Funder)
           IN  /\ byDefault.err = "" /\ byDefault.msgs = RewardTransfer(d, due)
               /\ toFunder.err = "" /\ toFunder.msgs = RewardTransfer(Funder, due)
               /\ due > 0 =>
                      byDefault.withdraw_adjustment[owner].withdrawn_rewards
                          = withdraw_adjustment[owner].withdrawn_rewards + due
    /\ \A owner, d \in Accounts :
           LET r == execute_delegate_withdrawal(owner, d)
           IN  /\ r.err = "" /\ r.msgs = <<>>
               /\ DOMAIN r = {"err", "msgs", "withdraw_adjustment"}
               /\ r.withdraw_adjustment
                    = Put(withdraw_adjustment, owner,
                          [AdjustmentOf(owner) EXCEPT !.delegated = d])

\* C11 witness: a1 has named a2 its delegate and has rewards to withdraw,
\* part of which were withdrawn before.
C11_Witness ==
    /\ query_delegated("a1") = "a2"
    /\ query_withdrawable_rewards("a1") > 0
    /\ AdjustmentOf("a1").withdrawn_rewards > 0

\* the positions of an account's claims that have matured at time t
Matured(a, t) == {i \in DOMAIN claims[a] : claims[a][i].release_at <= t}

MaturedSum(a, t) ==
    SumOver([i \in DOMAIN claims[a] |->
                IF i \in Matured(a, t) THEN claims[a][i].amount ELSE 0],
            DOMAIN claims[a])

\* list `kept` is list `full` without the positions in `gone`, order kept
IsRemainder(kept, full, gone) ==
    /\ Len(kept) = Len(full) - Cardinality(gone)
    /\ \A i \in DOMAIN full \ gone :
           kept[i - Cardinality({j \in gone : j < i})] = full[i]

\* C12: a successful Claim at time now releases exactly the sum of the
\* caller's claims with maturity <= now, whatever bucket they came from and
\* wherever they stand in the list; it removes exactly those, keeps the
\* pending ones unchanged, emits exactly one Undelegate{recipient = caller,
\* amount = sum} to the token ledger and lowers the unbonding counter by the
\* sum.
C12_ClaimReleasesMatured ==
    \A a \in Users :
        LET c == execute_claim(a)
            sum == MaturedSum(a, now)
        IN  c.err = "" =>
                /\ sum > 0
                /\ c.msgs = <<[type |-> "Undelegate", to |-> config.cw20_contract,
                               recipient |-> a, amount |-> sum]>>
                /\ IsRemainder(c.claims[a], claims[a], Matured(a, now))
                /\ \A b \in Accounts \ {a} : c.claims[b] = claims[b]
                /\ c.total_staked.unbonding = total_staked.unbonding - sum
                /\ c.total_staked.staked = total_staked.staked
                /\ DOMAIN c = {"err", "msgs", "claims", "total_staked"}

\* C12 witness: the caller's list holds a pending claim of the longer bucket
\* in front of a matured claim of the shorter one, and the Claim succeeds.
C12_Witness ==
    \E a \in Users :
        /\ Len(claims[a]) = 2
        /\ claims[a][1].release_at > now
        /\ claims[a][2].release_at <= now
        /\ claims[a][1].release_at - claims[a][2].release_at = 1
        /\ execute_claim(a).err = ""

\* C13: a Claim by an account none of whose claims has matured fails with
\* NothingToClaim, emits nothing and writes nothing.
C13_Refused ==
    \A a \in Accounts :
        Matured(a, now) = {} => execute_claim(a) = Err("NothingToClaim")

\* C13: after a successful Claim (the caller's list shrank) a second Claim at
\* the same time fails with NothingToClaim.
C13_Step ==
    \A a \in Accounts :
        Len(claims'[a]) < Len(claims[a]) =>
            /\ now' = now
            /\ execute_claim(a)' = Err("NothingToClaim")

\* C13: a Claim with nothing matured fails with NothingToClaim and changes
\* nothing, and so does a second Claim right after a successful one.
C13_NothingToClaim == []C13_Refused /\ [][C13_Step]_vars

\* C13 witness: time has passed, an account holds tokens again and still has
\* a claim in its list, none of them matured, and its Claim is refused.
C13_Witness ==
    \E a \in Users :
        /\ now > 0
        /\ balances[a] > 0
        /\ claims[a] # <<>>
        /\ Matured(a, now) = {}
        /\ execute_claim(a).err = "NothingToClaim"

\* the successful Unbond commands of the reachable inputs
UnbondCases ==
    {x \in [a : Users, amount : Amounts, p : Periods] :
        execute_unbond(x.a, x.amount, x.p).err = ""}

\* what every successful Unbond does to the stake, the powers and the claims
UnbondEffect(x) ==
    LET u == execute_unbond(x.a, x.amount, x.p)
        old == stake[x.a][x.p]
        new == u.stake[x.a][x.p]
        left == total_stake(old) - x.amount
    IN  /\ total_stake(new) = left
        /\ new.votes = calc_power(config, left, stake_config[x.p].voting)
        /\ new.rewards = calc_power(config, left, stake_config[x.p].reward)
        /\ Get(u.members, x.a, 0) = Get(members, x.a, 0) - old.votes + new.votes
        /\ Get(u.rewards, x.a, 0) = Get(rewards, x.a, 0) - old.rewards + new.rewards
        /\ \A q \in Periods \ {x.p} : u.stake[x.a][q] = stake[x.a][q]
        /\ u.claims[x.a] = Append(claims[x.a],
               [amount |-> x.amount, release_at |-> now + x.p])
        /\ \A b \in Accounts \ {x.a} : u.claims[b] = claims[b] /\ u.stake[b] = stake[b]

\* C14 (amended): a successful Unbond(amount, bucket) at time now reduces the
\* caller's stake in the bucket by exactly amount, sets the bucket's voting
\* and reward power to the power of the remaining stake in the same command
\* (the account's power moves by the difference at once, which is nothing when
\* the stake was already below min_bond or the rounding absorbs it), and
\* appends one claim {amount, now + bucket period} behind the caller's
\* existing claims, which stay untouched.
C14_UnbondEffect == \A x \in UnbondCases : UnbondEffect(x)

\* C14 as stated: every successful Unbond changes the caller's voting power
\* and reward power.
C14_AsStated ==
    \A x \in UnbondCases :
        LET u == execute_unbond(x.a, x.amount, x.p)
        IN  /\ UnbondEffect(x)
            /\ Get(u.members, x.a, 0) # Get(members, x.a, 0)
            /\ Get(u.rewards, x.a, 0) # Get(rewards, x.a, 0)

\* C14 witness: an account with voting power, staked in the longer bucket
\* some time ago, unbonds part of it successfully and loses the power in the
\* command.
C14_Witness ==
    \E x \in UnbondCases :
        /\ now > 0
        /\ x.p = 2
        /\ x.amount < total_stake(stake[x.a][x.p])
        /\ Get(members, x.a, 0) > 0
        /\ Get(execute_unbond(x.a, x.amount, x.p).members, x.a, 0) = 0

\* the votes and the tokens of an account's per-bucket records, summed
BucketVotes(a) == SumOver([p \in Periods |-> stake[a][p].votes], Periods)

BucketStake(a) == SumOver([p \in Periods |-> total_stake(stake[a][p])], Periods)

\* C19: each account's voting power in the index is the sum of the votes of
\* its per-bucket records, and the total voting power is the sum of the
\* accounts' powers.
C19_PowerSums ==
    /\ \A a \in Accounts : Get(members, a, 0) = BucketVotes(a)
    /\ total_votes = SumOver([a \in Accounts |-> Get(members, a, 0)], Accounts)

\* C19 witness: one account has votes in both buckets, a second account has
\* votes too, and the total is the sum over both.
C19_Witness ==
    /\ stake["a1"][1].votes > 0
    /\ stake["a1"][2].votes > 0
    /\ members["a1"] = 2
    /\ Get(members, "a2", 0) > 0
    /\ total_votes = 3

\* C20: an account is in the membership map exactly when its total voting
\* power is not zero, and never with a stake of zero: min_bond is at least 1
\* although it was configured as 0.
C20_MemberIffPower ==
    /\ DistMsg.min_bond = 0
    /\ config.min_bond >= 1
    /\ \A a \in Accounts :
           /\ a \in DOMAIN members <=> BucketVotes(a) # 0
           /\ a \in DOMAIN members => members[a] # 0
           /\ BucketStake(a) = 0 => a \notin DOMAIN members

\* C20 witness: one account bonded and unbonded everything (it has a claim,
\* no stake and no entry) while another account is a member.
C20_Witness ==
    /\ BucketStake("a1") = 0
    /\ claims["a1"] # <<>>
    /\ "a1" \notin DOMAIN members
    /\ "a2" \in DOMAIN members

\* C17 as stated: whenever the total reward power is zero, also on a ledger
\* where nobody has bonded yet, DistributeRewards fails with
\* NoMembersToDistributeTo and leaves the distribution pool unchanged.
C17_AsStated ==
    OrZero(total_rewards) = 0 =>
        \A sender \in Accounts :
            execute_distribute_rewards(sender) = Err("NoMembersToDistributeTo")

\* C17, once the total reward power has been written: when everyone has
\* unbonded, DistributeRewards fails with NoMembersToDistributeTo.
C17_AfterWrite ==
    total_rewards = Some(0) =>
        \A sender \in Accounts :
            execute_distribute_rewards(sender) = Err("NoMembersToDistributeTo")

\* C17: everyone has unbonded again and tokens wait on the contract's account.
C17_AllUnbonded ==
    /\ total_rewards = Some(0)
    /\ \E a \in Users : claims[a] # <<>>
    /\ undistributed_rewards > 0

\* C18 as stated: a WithdrawRewards by the owner or its delegate for an owner
\* whose withdrawable amount is zero succeeds without error, without transfer
\* and without a change to withdrawn_rewards or withdrawable_total.
C18_AsStated ==
    \A sender \in Accounts, owner \in Accounts, receiver \in {None, Funder} :
        (sender \in {owner, query_delegated(owner)}
            /\ query_withdrawable_rewards(owner) = 0) =>
                execute_withdraw_rewards(sender, owner, receiver)
                    = [err |-> "", msgs |-> <<>>]

\* C18, for owners that have an adjustment record: the withdrawal of nothing
\* is a silent success.
C18_WithRecord ==
    \A sender \in Accounts, owner \in DOMAIN withdraw_adjustment,
       receiver \in {None, Funder} :
        (sender \in {owner, withdraw_adjustment[owner].delegated}
            /\ query_withdrawable_rewards(owner) = 0) =>
                execute_withdraw_rewards(sender, owner, receiver)
                    = [err |-> "", msgs |-> <<>>]

\* C18: an owner that has withdrawn everything it was due.
C18_AllWithdrawn ==
    \E a \in DOMAIN withdraw_adjustment :
        /\ withdraw_adjustment[a].withdrawn_rewards > 0
        /\ query_withdrawable_rewards(a) = 0
        /\ execute_withdraw_rewards(a, None, None).err = ""

\* the successful Bond, Unbond and Rebond commands of the reachable inputs,
\* each with the account acting and the command's result
MembershipCommands ==
    {[a |-> a, r |-> execute_bond(Cw20Contract, n, p, a)] :
        a \in Users, n \in Amounts, p \in Periods}
    \cup {[a |-> a, r |-> execute_unbond(a, n, p)] :
        a \in Users, n \in Amounts, p \in Periods}
    \cup UNION {{[a |-> a, r |-> r] : r \in execute_rebond(a, n, p, q)} :
                  a \in Users, n \in Amounts, p \in Periods, q \in Periods}

\* the account's total voting power after the command, summed over the buckets
VotesAfter(c) == SumOver([p \in Periods |-> c.r.stake[c.a][p].votes], Periods)

\* one notification per observer, in registration order, with the diff
Notifications(a, old, new) ==
    [i \in DOMAIN query_hooks |->
        [type |-> "MemberChangedHook", to |-> query_hooks[i],
         diffs |-> <<[key |-> a,
                      old |-> IF a \in DOMAIN members THEN <<old>> ELSE <<>>,
                      new |-> IF new = 0 THEN <<>> ELSE <<new>>]>>]]

\* C15: a successful Bond, Unbond or Rebond emits exactly one member-changed
\* notification per registered observer, in registration order, each carrying
\* {account, old power or none if not a member, new power or none if zero}
\* when the account's total voting power differs before and after, and emits
\* nothing when it does not.
C15_Notifications ==
    \A c \in MembershipCommands :
        c.r.err = "" =>
            c.r.msgs = IF VotesAfter(c) # BucketVotes(c.a)
                       THEN Notifications(c.a, BucketVotes(c.a), VotesAfter(c))
                       ELSE <<>>

\* C15 witness: two observers are registered, h2 before h1; a member can
\* change its power by a command and lose all of it by another, and a
\* command of the other account succeeds without changing its power.
C15_Witness ==
    /\ query_hooks = <<"h2", "h1">>
    /\ "a1" \in DOMAIN members
    /\ \E c \in MembershipCommands :
           c.a = "a1" /\ c.r.err = "" /\ VotesAfter(c) > BucketVotes("a1")
    /\ \E c \in MembershipCommands :
           c.a = "a1" /\ c.r.err = "" /\ VotesAfter(c) = 0
    /\ \E c \in MembershipCommands :
           c.a = "a2" /\ c.r.err = "" /\ VotesAfter(c) = BucketVotes("a2")

\* the heights a historical query may name
Heights == 0 .. MaxHeight + 1

\* the heights of the logged writes of an account's power
WriteHeights(a) == DOMAIN members_changelog[a]

\* C16, state part: the current powers are what the historical queries return
\* for every height after the current one, and a query for a height not above
\* that of the first write (of the account's power, or of the total at
\* instantiation) returns the zero default.
C16_Later ==
    /\ \A a \in Accounts, h \in Heights :
           /\ h > height =>
                  query_voting_power(a, Some(h)) = query_voting_power(a, Absent)
           /\ (\A g \in WriteHeights(a) : h <= g) =>
                  query_voting_power(a, Some(h)) = 0
    /\ \A h \in Heights :
           /\ h > height => query_total_power(Some(h)) = query_total_power(Absent)
           /\ h <= InitialHeight => query_total_power(Some(h)) = 0

\* C16, step part: no command changes what a historical query returns for
\* the current height or a height before it; a write made at height H does
\* not show at H itself.
C16_Step ==
    \A h \in Heights :
        h <= height =>
            /\ \A a \in Accounts :
                   query_voting_power(a, Some(h))' = query_voting_power(a, Some(h))
            /\ query_total_power(Some(h))' = query_total_power(Some(h))

\* C16 (amended): a voting-power write made at block height H (an account's
\* power or the total) is returned by the historical queries for every height
\* above H until a later write supersedes it, a query for height H itself
\* returns the value from before the block's writes, and queries for heights
\* up to that of the first write return the zero default.
C16_Snapshots == []C16_Later /\ [][C16_Step]_vars

\* C16 as stated: a write made at the current height is returned by the
\* historical query for that height (the lowest height >= H).
C16_AsStated ==
    /\ \A a \in Accounts :
           query_voting_power(a, Some(height)) = query_voting_power(a, Absent)
    /\ query_total_power(Some(height)) = query_total_power(Absent)

\* C16 witness: an account's power was written in three blocks; the queries
\* give the zero default up to the first write's height, then each written
\* value from the height after its write, the last one not yet at the current
\* height.
C16_Witness ==
    /\ height = 3
    /\ WriteHeights("a1") = {1, 2, 3}
    /\ query_voting_power("a1", Some(1)) = 0
    /\ query_voting_power("a1", Some(2)) = 1
    /\ query_voting_power("a1", Some(3)) = 2
    /\ query_voting_power("a1", Some(4)) = 0
    /\ query_voting_power("a1", Absent) = 0
    /\ query_total_power(Some(3)) > query_total_power(Some(4))

\* C22 as stated: a Bond, an Unbond and a Rebond naming an unbonding period
\* that is not configured (Rebond: as source or as destination) fail with
\* NoUnbondingPeriodFound(period), whatever the amount and the stake.
C22_AsStated ==
    \A a \in Users, n \in Amounts :
        /\ execute_bond(Cw20Contract, n, UnknownPeriod, a).err = "NoUnbondingPeriodFound"
        /\ execute_unbond(a, n, UnknownPeriod).err = "NoUnbondingPeriodFound"
        /\ \A p \in Periods :
               /\ (\A r \in execute_rebond(a, n, UnknownPeriod, p) : r.err = "NoUnbondingPeriodFound")
               /\ (\A r \in execute_rebond(a, n, p, UnknownPeriod) : r.err = "NoUnbondingPeriodFound")

\* C22, where it holds: Bond, Unbond and Rebond from an unknown period fail
\* with NoUnbondingPeriodFound(period) before any write; Rebond to an unknown
\* period fails with it when the source bucket's total covers the amount.
C22_WhenCovered ==
    \A a \in Users, n \in Amounts :
        /\ execute_bond(Cw20Contract, n, UnknownPeriod, a)
               = NoUnbondingPeriodFound(UnknownPeriod)
        /\ execute_unbond(a, n, UnknownPeriod) = NoUnbondingPeriodFound(UnknownPeriod)
        /\ \A p \in Periods :
               /\ execute_rebond(a, n, UnknownPeriod, p)
                      = {NoUnbondingPeriodFound(UnknownPeriod)}
               /\ \A r \in execute_rebond(a, n, p, UnknownPeriod) :
                      IF stake_config[p].staked >= n
                      THEN r.err = "NoUnbondingPeriodFound" /\ r.period = UnknownPeriod
                      ELSE r = Err("Overflow")

\* C22: a bucket holds stake, so that both outcomes of a Rebond to an unknown
\* period occur.
C22_BothOutcomes ==
    \E p \in Periods :
        /\ (\A r \in execute_rebond("a1", 1, p, UnknownPeriod) : r.err = "NoUnbondingPeriodFound")
        /\ (\A r \in execute_rebond("a1", 2, p, UnknownPeriod) : r.err = "Overflow")

\* C23 as stated: Bond, Unbond and Rebond reject an amount of 0 with an
\* error; an Unbond of 0 appends no claim.
C23_AsStated ==
    \A a \in Users, p \in Periods :
        /\ cw20_delegate(a, 0, p).err # ""
        /\ execute_unbond(a, 0, p).err # ""
        /\ \A q \in Periods : \A r \in execute_rebond(a, 0, p, q) : r.err # ""

\* C23, where it holds: a Bond of 0 is refused by the token ledger with
\* InvalidZeroAmount and a Rebond of 0 with NoRebondAmount; an Unbond of 0
\* from a configured bucket succeeds and appends a claim of amount 0.
C23_ZeroAmounts ==
    \A a \in Users, p \in Periods :
        /\ cw20_delegate(a, 0, p) = Err("InvalidZeroAmount")
        /\ \A q \in Periods : execute_rebond(a, 0, p, q) = {Err("NoRebondAmount")}
        /\ LET u == execute_unbond(a, 0, p)
           IN  /\ u.err = ""
               /\ u.claims[a] = Append(claims[a], [amount |-> 0, release_at |-> now + p])
               /\ \A b \in Accounts, q \in Periods :
                      total_stake(u.stake[b][q]) = total_stake(stake[b][q])
               /\ u.msgs = <<>>

\* C23: an account with stake and with a claim, at a later time.
C23_Staked ==
    /\ now > 0
    /\ claims["a1"] # <<>>
    /\ total_stake(stake["a1"][2]) > 0
    /\ Len(execute_unbond("a1", 0, 2).claims["a1"]) = Len(claims["a1"]) + 1

\* C24 (amended): a Rebond of an amount above 0 whose source and destination
\* are the same bucket, configured or not, is rejected with
\* SameUnbondingRebond before anything is written, whatever the caller's
\* stake; with amount 0 the rejection is NoRebondAmount.
C24_SameBucket ==
    \A a \in Users, p \in Periods \cup {UnknownPeriod} :
        /\ \A n \in Amounts : execute_rebond(a, n, p, p) = {Err("SameUnbondingRebond")}
        /\ execute_rebond(a, 0, p, p) = {Err("NoRebondAmount")}

\* C24 as stated: whatever the amount, 0 included, the rejection is
\* SameUnbondingRebond.
C24_AsStated ==
    \A a \in Users, p \in Periods, n \in Amounts \cup {0} :
        (\A r \in execute_rebond(a, n, p, p) : r.err = "SameUnbondingRebond")

\* C24 witness: the caller has free stake in a bucket that would cover a
\* rebond to the other bucket, and the rebond to the same bucket is refused.
C24_Witness ==
    \E p \in Periods, q \in Periods, n \in Amounts :
        /\ (\A r \in execute_rebond("a1", n, p, q) : r.err = "")
        /\ (\A r \in execute_rebond("a1", n, p, p) : r.err = "SameUnbondingRebond")
        /\ total_locked(stake["a1"][p], now) > 0

\* the state right after a Rebond of n by a from a longer period p to a
\* shorter period q
AfterRebondToShorter(a, n, p, q) ==
    LET before == stake[a][q]
        after == stake'[a][q]
        free == total_unlocked(before, now)
        matures == now + (p - q)
    IN  /\ total_stake(after) = total_stake(before) + n
        /\ after.votes = calc_power(config, total_stake(after), stake_config[q].voting)
        /\ after.rewards = calc_power(config, total_stake(after), stake_config[q].reward)
        /\ \A t \in now .. MaxTime + p :
               total_locked(after, t)
                   = total_locked(before, t) + (IF t < matures THEN n ELSE 0)
        /\ \A t \in now .. MaxTime + p :
               total_unlocked(after, t)
                   = total_unlocked(before, t) + (IF t < matures THEN 0 ELSE n)

\* the state right after a Rebond of n by a from a shorter period p to a
\* longer period q
AfterRebondToLonger(a, n, p, q) ==
    /\ total_locked(stake'[a][q], now) = total_locked(stake[a][q], now)
    /\ total_unlocked(stake'[a][q], now) = total_unlocked(stake[a][q], now) + n
    /\ now' = now

\* C25: a successful Rebond to a shorter period adds the amount to the
\* destination as a lock maturing at now + (from - to): it counts in the
\* destination's stake and power and in total_locked until then, the stake
\* that was free in the destination can still be unbonded or rebonded, and
\* unbonding or rebonding more, into the moved amount, fails with a
\* subtraction overflow; a successful Rebond to a longer period adds free
\* stake that can be unbonded or rebonded again at the same time.
C25_Step ==
    \A a \in Users, n \in Amounts, p \in Periods, q \in Periods :
        (/\ stake'[a] # stake[a]
         /\ (\A r \in execute_rebond(a, n, p, q) : r.err = "")
         /\ Rebond(a, n, p, q)) =>
            IF p > q THEN AfterRebondToShorter(a, n, p, q)
            ELSE AfterRebondToLonger(a, n, p, q)

\* what can be unbonded or rebonded out of a bucket is its unlocked stake:
\* an amount within it succeeds, an amount reaching into the locked part
\* fails with a subtraction overflow
UnlockedOnly ==
    \A a \in Users, q \in Periods : \A m \in 1 .. total_stake(stake[a][q]) :
        LET can == IF m <= total_unlocked(stake[a][q], now) THEN "" ELSE "Overflow"
        IN  /\ execute_unbond(a, m, q).err = can
            /\ \A p \in Periods \ {q} : (\A r \in execute_rebond(a, m, q, p) : r.err = can)

\* C25: the moved amount of a Rebond to a shorter period is locked in the
\* destination until now + (from - to), counted in its stake and power but
\* not releasable, while the free stake stays releasable; the moved amount of
\* a Rebond to a longer period is free at once.
C25_RebondLocks == []UnlockedOnly /\ [][C25_Step]_vars

\* C25 witness: the shorter bucket holds one free token and one token locked
\* by a rebond; both count in the power, one can be unbonded, two cannot.
C25_Witness ==
    /\ total_unlocked(stake["a1"][1], now) = 1
    /\ total_locked(stake["a1"][1], now) = 1
    /\ stake["a1"][1].votes = calc_power(config, 2, stake_config[1].voting)
    /\ stake["a1"][1].votes > 0
    /\ execute_unbond("a1", 1, 1).err = ""
    /\ execute_unbond("a1", 2, 1).err = "Overflow"
    /\ (\A r \in execute_rebond("a1", 2, 1, 2) : r.err = "Overflow")

\* the powers the queries without a height return
CurrentPower(a) == query_voting_power(a, Absent)

\* within a block the historical queries for its height stay what they were
\* when the block began, whatever is written in it
BlockStartKept ==
    IF height' # height
    THEN /\ \A a \in Accounts :
                OrZero(may_load_at_height(members_changelog'[a], MayLoad(members', a),
                                          height')) = CurrentPower(a)
         /\ OrZero(may_load_at_height(total_votes_changelog', Some(total_votes'),
                                      height')) = query_total_power(Absent)
    ELSE /\ \A a \in Accounts :
                query_voting_power(a, Some(height))' = query_voting_power(a, Some(height))
         /\ query_total_power(Some(height))' = query_total_power(Some(height))

\* an account's power changes for the first time in the current block
FirstChange(a) == height \notin WriteHeights(a) /\ CurrentPower(a)' # CurrentPower(a)

C26_Step ==
    /\ BlockStartKept
    /\ \A a \in Accounts :
           FirstChange(a) =>
               /\ query_voting_power(a, Some(height))' = CurrentPower(a)
               /\ WriteHeights(a) = {} => query_voting_power(a, Some(height))' = 0
               /\ CurrentPower(a)' = BucketVotes(a)'
               /\ CurrentPower(a)' # query_voting_power(a, Some(height))'
               /\ query_total_power(Absent)' - query_total_power(Absent)
                      = CurrentPower(a)' - CurrentPower(a)
               /\ query_total_power(Some(height))' # query_total_power(Absent)'
                      \/ height \in DOMAIN total_votes_changelog

\* C26: when an account's voting power first changes in the block at height
\* H, the historical queries at height H, for the account and for the total,
\* still return the values from before the block (0 if nothing was bonded
\* earlier), while the queries without a height return the new values.
C26_BlockStart == [][C26_Step]_vars

\* C26 witness: in the block at height 2 an account bonded for the first
\* time, another one having bonded a block earlier: the queries at height 2
\* give 0 for the account and the other account's power for the total, the
\* queries without a height give the new values.
C26_Witness ==
    /\ height = 2
    /\ WriteHeights("a1") = {2}
    /\ query_voting_power("a1", Some(2)) = 0
    /\ query_voting_power("a1", Absent) = 2
    /\ query_voting_power("a2", Some(2)) = 1
    /\ query_total_power(Some(2)) = 1
    /\ query_total_power(Absent) = 3

\* the amount received since the last distribution
NewlyReceived ==
    balances[StakingContract] - total_staked.staked - total_staked.unbonding
        - distribution.withdrawable_total

C28_Withdraw ==
    \A sender \in Accounts, owner_opt \in Accounts \cup {None},
       receiver_opt \in Accounts \cup {None} :
        LET O == IF owner_opt = None THEN sender ELSE owner_opt
            w == query_withdrawable_rewards(O)
            r == execute_withdraw_rewards(sender, owner_opt, receiver_opt)
        IN  (w > 0 /\ r.err = "") =>
                /\ DOMAIN r = {"err", "withdraw_adjustment", "distribution", "msgs"}
                /\ r.withdraw_adjustment[O] =
                       [withdraw_adjustment[O] EXCEPT !.withdrawn_rewards = @ + w]
                /\ \A b \in DOMAIN withdraw_adjustment \ {O} :
                       r.withdraw_adjustment[b] = withdraw_adjustment[b]
                /\ DOMAIN r.withdraw_adjustment = DOMAIN withdraw_adjustment
                /\ r.distribution =
                       [distribution EXCEPT !.withdrawable_total = @ - w]
                /\ r.msgs = <<[type |-> "Transfer", to |-> config.cw20_contract,
                               recipient |-> IF receiver_opt = None THEN sender
                                             ELSE receiver_opt,
                               amount |-> w]>>
                /\ withdrawable_rewards(O, r.distribution, r.withdraw_adjustment[O])
                       = [wrapped |-> FALSE, amount |-> 0]

\* C28 witness: two accounts have rewards to withdraw out of a pool of two
\* tokens, and one of them has named the other its delegate, which can
\* withdraw for it to a third account.
C28_Witness ==
    /\ query_withdrawable_rewards("a1") > 0
    /\ query_withdrawable_rewards("a2") > 0
    /\ distribution.withdrawable_total = 2
    /\ execute_withdraw_rewards("a2", "a1", Funder).err = ""
    /\ execute_withdraw_rewards("a1", None, None).err = ""

\* the rewards of an account's per-bucket records, summed
BucketRewards(a) == SumOver([p \in Periods |-> stake[a][p].rewards], Periods)

\* C29: each account's stored reward power (0 when there is no entry) is the
\* sum of the rewards of its per-bucket records, and the stored total reward
\* power (0 until first saved) is the sum of the accounts' reward powers.
C29_RewardSums ==
    /\ \A a \in Accounts : Get(rewards, a, 0) = BucketRewards(a)
    /\ OrZero(total_rewards)
           = SumOver([a \in Accounts |-> Get(rewards, a, 0)], Accounts)

\* C29 witness: an account holds rewards in both buckets, more in the longer
\* one, and a second account has rewards too.
C29_Witness ==
    /\ stake["a1"][1].rewards > 0
    /\ stake["a1"][2].rewards > stake["a1"][1].rewards
    /\ rewards["a1"] = 3
    /\ Get(rewards, "a2", 0) > 0
    /\ total_rewards = Some(3 + rewards["a2"])

\* the successful Rebond commands of a1 with their results
NetRebonds ==
    {x \in [n : Amounts, p : Periods, q : Periods] :
        (\A r \in execute_rebond("a1", x.n, x.p, x.q) : r.err = "")}

\* the change of the votes, or rewards, of one bucket by a command's result
VoteDelta(r, a, p) == r.stake[a][p].votes - stake[a][p].votes

RewardDelta(r, a, p) == r.stake[a][p].rewards - stake[a][p].rewards

\* C30: a Rebond applies the vote deltas of its two buckets as one net
\* change: when the net is not zero it emits exactly one notification per
\* observer, carrying the account's total voting power before and after the
\* whole rebond; when the deltas cancel it emits none and writes neither the
\* voting powers nor their snapshots; and the two reward deltas make a single
\* correction shares_correction -= shares_per_point * (net reward delta).
C30_NetChange ==
    \A x \in NetRebonds : \A r \in execute_rebond("a1", x.n, x.p, x.q) :
        LET a == "a1"
            before == BucketVotes(a)
            net == VoteDelta(r, a, x.p) + VoteDelta(r, a, x.q)
            rnet == RewardDelta(r, a, x.p) + RewardDelta(r, a, x.q)
        IN  /\ r.msgs = IF net = 0 THEN <<>>
                        ELSE Notifications(a, before, before + net)
            /\ Len(r.msgs) <= Len(query_hooks)
            /\ net = 0 =>
                   /\ r.members = members
                   /\ r.total_votes = total_votes
                   /\ r.members_changelog = members_changelog
                   /\ r.total_votes_changelog = total_votes_changelog
            /\ net # 0 =>
                   /\ Get(r.members, a, 0) = before + net
                   /\ r.total_votes = total_votes + net
            /\ r.withdraw_adjustment =
                   IF rnet = 0 THEN withdraw_adjustment
                   ELSE Put(withdraw_adjustment, a,
                            [AdjustmentOf(a) EXCEPT !.shares_correction =
                                FxSub(@, FxMulInt(distribution.shares_per_point, rnet))])
            /\ Get(r.rewards, a, 0) = Get(rewards, a, 0) + rnet

\* C30 witness: with two observers registered and rewards distributed, one
\* rebond changes the votes of both buckets by opposite amounts that cancel
\* (while its reward deltas do not), and another changes the total.
C30_Witness ==
    /\ Len(query_hooks) = 2
    /\ distribution.shares_per_point # FxZero
    /\ \E x \in NetRebonds :
           \A r \in execute_rebond("a1", x.n, x.p, x.q) :
               /\ VoteDelta(r, "a1", x.p) < 0
               /\ VoteDelta(r, "a1", x.p) + VoteDelta(r, "a1", x.q) = 0
               /\ RewardDelta(r, "a1", x.p) + RewardDelta(r, "a1", x.q) > 0
               /\ RewardDelta(r, "a1", x.p) < 0
    /\ \E x \in NetRebonds :
           \A r \in execute_rebond("a1", x.n, x.p, x.q) :
               VoteDelta(r, "a1", x.p) + VoteDelta(r, "a1", x.q) # 0

\* the addresses of a list, as pairs in the order the list holds them
OrderOf(list) ==
    {<<list[x[1]], list[x[2]]>> : x \in {y \in (DOMAIN list) \X (DOMAIN list) : y[1] < y[2]}}

\* C31 as stated: in every state the admin's RemoveHook of an address that
\* is not registered fails with HookNotRegistered.
C31_AsStated ==
    \A h \in HookAddrs :
        (admin # None /\ h \notin Range(query_hooks)) =>
            execute_remove_hook(admin, h) = Err("HookNotRegistered")

\* C31, as the code has it: what an UpdateAdmin, an AddHook or a RemoveHook
\* answers in a state: NotAdmin to every sender but the admin; to the admin
\* HookAlreadyRegistered for an address in the list and, for one that is not
\* in it, NotFound while the list has never been saved and HookNotRegistered
\* afterwards, and else the list with the address appended, or taken out
\* with the others in place.
HookAnswers ==
    \A s \in {AdminAddr} \cup Accounts, h \in HookAddrs :
        /\ s # admin => /\ execute_add_hook(s, h) = Err("NotAdmin")
                        /\ execute_remove_hook(s, h) = Err("NotAdmin")
                        /\ execute_update_admin(s, s) = Err("NotAdmin")
        /\ (s = admin /\ h \in Range(query_hooks)) =>
               /\ execute_add_hook(s, h) = Err("HookAlreadyRegistered")
               /\ execute_remove_hook(s, h).err = ""
               /\ h \notin Range(execute_remove_hook(s, h).hooks[1])
               /\ Range(execute_remove_hook(s, h).hooks[1]) = Range(query_hooks) \ {h}
        /\ (s = admin /\ h \notin Range(query_hooks)) =>
               /\ execute_remove_hook(s, h) =
                      Err(IF hooks = Absent THEN "NotFound" ELSE "HookNotRegistered")
               /\ execute_add_hook(s, h).err = ""
               /\ execute_add_hook(s, h).hooks = Some(query_hooks \o <<h>>)

\* C31: the list holds no address twice
NoDuplicateHooks ==
    \A i, j \in DOMAIN query_hooks : query_hooks[i] = query_hooks[j] => i = j

\* C31: a step keeps the order of the addresses that stay, puts a new address
\* last, and changes the list only by a command of the admin that was not
\* refused.
HookOrderKept ==
    \/ query_hooks' = query_hooks
    \/ /\ \A x \in OrderOf(query_hooks) :
              {x[1], x[2]} \subseteq Range(query_hooks') => x \in OrderOf(query_hooks')
       /\ \A h \in Range(query_hooks') \ Range(query_hooks) :
              query_hooks'[Len(query_hooks')] = h
       /\ \E h \in HookAddrs :
              \/ execute_add_hook(admin, h).err = "" /\ AddHook(admin, h)
              \/ execute_remove_hook(admin, h).err = "" /\ RemoveHook(admin, h)

\* C31, where it holds: only the admin adds or removes observers (others get
\* NotAdmin); adding a registered address fails with HookAlreadyRegistered,
\* removing an unregistered one with HookNotRegistered once the list has been
\* saved (NotFound before), the list staying as it was; the list never holds
\* an address twice and keeps the registration order.
C31_HookList == [](HookAnswers /\ NoDuplicateHooks) /\ [][HookOrderKept]_vars

\* C31: two observers registered, the later-named one first, so that the
\* admin's re-adding and a user's adding or removing are all refused; the
\* admin is no longer the one who instantiated.
C31_Registered ==
    /\ query_hooks = <<"h2", "h1">>
    /\ admin = "a1"
    /\ execute_add_hook("a1", "h1").err = "HookAlreadyRegistered"
    /\ execute_add_hook(AdminAddr, "h1").err = "NotAdmin"
    /\ execute_remove_hook("a2", "h2").err = "NotAdmin"
    /\ execute_remove_hook("a1", "h2").hooks = Some(<<"h1">>)

\* the addresses that can send a message to the contract
Callers == Accounts \cup {Cw20Contract, StakingContract, AdminAddr}

\* C32: what a ReceiveDelegation answers in a state: Cw20AddressesNotMatch,
\* with nothing written, to every immediate caller but the configured token
\* contract, whatever account, amount and period the notification names; from
\* the token contract, when it succeeds, the amount is added to the stake of
\* the account named inside the notification, in the named bucket, and no
\* other account's stake, voting power or reward power is written.
ReceiveAnswers ==
    \A c \in Callers, a \in Users, n \in Amounts, p \in Periods \cup {UnknownPeriod} :
        LET r == execute_receive_delegation(c, a, n, p)
        IN  /\ c # config.cw20_contract => r = Err("Cw20AddressesNotMatch")
            /\ (c = config.cw20_contract /\ r.err = "") =>
                   /\ total_stake(r.stake[a][p]) = total_stake(stake[a][p]) + n
                   /\ \A b \in Accounts, q \in Periods :
                          <<b, q>> # <<a, p>> => r.stake[b][q] = stake[b][q]
                   /\ \A b \in Accounts \ {a} :
                          /\ MayLoad(r.members, b) = MayLoad(members, b)
                          /\ MayLoad(r.rewards, b) = MayLoad(rewards, b)
                   /\ r.total_staked.staked = total_staked.staked + n

\* C32: a step that is a ReceiveDelegation sent by another address than the
\* token contract changes nothing
ForeignReceiveRefused ==
    \/ UNCHANGED vars
    \/ \A c \in Users, a \in Users, n \in Amounts, p \in Periods :
           (c # config.cw20_contract /\ ReceiveDelegation(c, a, n, p)) => UNCHANGED vars

\* C32: a receive-delegation notification is accepted only from the
\* configured token contract; from any other caller it fails with
\* Cw20AddressesNotMatch and changes no state; on success the stake is
\* credited to the account named as sender inside the notification.
C32_ReceiveDelegation == []ReceiveAnswers /\ [][ForeignReceiveRefused]_vars

\* C32 witness: a1 has stake that it delegated through the token contract,
\* a2 has none; a notification naming a1 is refused when a2 (or a1 itself)
\* sends it and would be accepted from the token contract.
C32_Witness ==
    /\ total_stake(stake["a1"][1]) > 0
    /\ Get(delegated, "a1", 0) > 0
    /\ \A p \in Periods : total_stake(stake["a2"][p]) = 0
    /\ execute_receive_delegation("a2", "a1", 1, 1) = Err("Cw20AddressesNotMatch")
    /\ execute_receive_delegation("a1", "a1", 1, 1) = Err("Cw20AddressesNotMatch")
    /\ execute_receive_delegation(Cw20Contract, "a1", 1, 1).err = ""

\* the pending claims of an account, summed
ClaimSum(a) == SumSeq([i \in DOMAIN claims[a] |-> claims[a][i].amount])

\* C33: the amount the next distribution takes is the contract's token
\* balance less the staked tokens, the unbonding tokens and the rewards that
\* were distributed and not yet withdrawn; it is never negative.
UndistributedAmount ==
    /\ query_undistributed_rewards
           = balances[StakingContract] - total_staked.staked - total_staked.unbonding
               - distribution.withdrawable_total
    /\ query_undistributed_rewards >= 0
    /\ execute_distribute_rewards(Funder).err = "" =>
           \/ /\ query_undistributed_rewards = 0
              /\ "distribution" \notin DOMAIN execute_distribute_rewards(Funder)
           \/ /\ query_undistributed_rewards > 0
              /\ execute_distribute_rewards(Funder).distribution.distributed_total
                     = distribution.distributed_total + query_undistributed_rewards

\* a step of a staking command: Bond, Unbond, Rebond or Claim
StakingStep ==
    \/ \E a \in Users, n \in Amounts, p \in Periods :
           \/ Delegate(a, n, p)
           \/ Unbond(a, n, p)
           \/ \E q \in Periods : Rebond(a, n, p, q)
    \/ \E a \in Users : Claim(a)

\* C33: the staking commands, and only they, change stake records and claim
\* lists; they leave the undistributed amount and the pool as they were, and
\* a distribution right after an Unbond takes what it would have taken before
\* it: nothing, when nothing was undistributed.
C33_Step ==
    \/ stake' = stake /\ claims' = claims
    \/ /\ StakingStep
       /\ query_undistributed_rewards' = query_undistributed_rewards
       /\ distribution' = distribution
       /\ (claims' # claims /\ stake' # stake /\ query_undistributed_rewards = 0) =>
              LET d == execute_distribute_rewards(Funder)'
              IN  d.err # "" \/ "distribution" \notin DOMAIN d

\* C33: staked and unbonding tokens are never counted as distributable
\* rewards: the undistributed amount is balance - staked - unbonding -
\* withdrawable_total, Bond, Unbond, Rebond and Claim leave it and
\* withdrawable_total unchanged, and a DistributeRewards right after an Unbond
\* distributes nothing.
C33_StakeNotRewards == []UndistributedAmount /\ [][C33_Step]_vars

\* C33 witness: rewards were distributed and none is undistributed, while
\* tokens are staked and others, unbonded before, wait in a claim.
C33_Witness ==
    /\ distribution.withdrawable_total > 0
    /\ query_undistributed_rewards = 0
    /\ total_staked.staked > 0
    /\ total_staked.unbonding > 0
    /\ ClaimSum("a1") > 0
    /\ now > 0
    /\ balances[StakingContract] > distribution.withdrawable_total

\* the stake of an account over all buckets, free and locked
StakeOf(a) == SumOver([p \in Periods |-> total_stake(stake[a][p])], Periods)

\* C34: the staked counter is the sum of all accounts' stake over all
\* buckets (and each bucket's total the sum of the accounts' stake in it),
\* the unbonding counter the sum of the amounts of all pending claims.
CountersAreSums ==
    /\ total_staked.staked = SumOver([a \in Accounts |-> StakeOf(a)], Accounts)
    /\ total_staked.unbonding = SumOver([a \in Accounts |-> ClaimSum(a)], Accounts)
    /\ \A p \in Periods :
           stake_config[p].staked
               = SumOver([a \in Accounts |-> total_stake(stake[a][p])], Accounts)

\* C34: what each accepted command does to the two counters
CounterMoves ==
    /\ \A a \in Users, n \in Amounts, p \in Periods :
           /\ (cw20_delegate(a, n, p).err = "" /\ Delegate(a, n, p)) =>
                  total_staked' = [staked |-> total_staked.staked + n,
                                   unbonding |-> total_staked.unbonding]
           /\ (execute_unbond(a, n, p).err = "" /\ Unbond(a, n, p)) =>
                  total_staked' = [staked |-> total_staked.staked - n,
                                   unbonding |-> total_staked.unbonding + n]
           /\ \A q \in Periods :
                  ((\A r \in execute_rebond(a, n, p, q) : r.err = "") /\ Rebond(a, n, p, q)) =>
                      total_staked' = total_staked
    /\ \A a \in Users :
           (execute_claim(a).err = "" /\ Claim(a)) =>
               /\ MaturedSum(a, now) > 0
               /\ total_staked' = [staked |-> total_staked.staked,
                                   unbonding |-> total_staked.unbonding - MaturedSum(a, now)]

C34_Step == UNCHANGED vars \/ CounterMoves

\* C34: TotalStaked equals the sum of all accounts' stake over all buckets
\* and TotalUnbonding the sum of all pending claims; Bond adds to TotalStaked,
\* Unbond moves the amount from TotalStaked to TotalUnbonding, Claim subtracts
\* the released sum from TotalUnbonding, Rebond changes neither.
C34_Counters == []CountersAreSums /\ [][C34_Step]_vars

\* C34 witness: a1 has stake, locked by a rebond, and a matured claim, and
\* another claim is pending, so that a Claim of a1 would release a part of
\* the unbonding counter.
C34_Witness ==
    /\ StakeOf("a1") > 0
    /\ \E p \in Periods : stake["a1"][p].locked_tokens # <<>>
    /\ 0 < MaturedSum("a1", now)
    /\ MaturedSum("a1", now) < total_staked.unbonding
    /\ execute_claim("a1").err = ""

\* C35 as stated: the configured list of buckets holds each unbonding period
\* at most once, whatever the instantiation input, and the bonding-period
\* query never reports the same period twice.
C35_AsStated ==
    /\ \A i, j \in DOMAIN config.unbonding_periods :
           config.unbonding_periods[i] = config.unbonding_periods[j] => i = j
    /\ \A i, j \in DOMAIN query_bonding_info :
           query_bonding_info[i].unbonding_period = query_bonding_info[j].unbonding_period
               => i = j

\* C35, what holds for any input: the list keeps every period of the input
\* in its order, repeated as often as the input names it; every listed period
\* has exactly one record of multipliers and total, the one the last input
\* entry of that period gave, and the query reports that record at each
\* position of the period.
C35_LastEntryWins ==
    /\ DOMAIN stake_config = Range(config.unbonding_periods)
    /\ Len(query_bonding_info) = Len(config.unbonding_periods)
    /\ \A i \in DOMAIN query_bonding_info :
           /\ query_bonding_info[i].unbonding_period = config.unbonding_periods[i]
           /\ query_bonding_info[i].voting_multiplier
                  = stake_config[config.unbonding_periods[i]].voting
           /\ query_bonding_info[i].total_staked
                  = stake_config[config.unbonding_periods[i]].staked

\* C35: a contract instantiated with a period named twice, with different
\* multipliers, and with stake in the bucket: the query reports the period
\* twice, both times with the later entry's multiplier and the same total.
C35_ReportedTwice ==
    /\ Len(query_bonding_info) = 2
    /\ query_bonding_info[1] = query_bonding_info[2]
    /\ query_bonding_info[1].total_staked > 0
    /\ members # EmptyMap

\* C36: what an Undelegate of a positive amount answers in a state:
\* StakingAddressNotSet while no staking address is registered, and
\* UnauthorizedUndelegate to every caller but the registered one, whoever the
\* recipient is and whatever was delegated; it succeeds for no other caller,
\* and when it succeeds the recipient's delegated amount goes to its balance.
UndelegateAnswers ==
    \A c \in Callers \cup {Minter}, a \in Accounts, n \in Amounts :
        LET u == cw20_undelegate(Ledger, c, a, n)
        IN  /\ staking = None => u = Err("StakingAddressNotSet")
            /\ (staking # None /\ c # staking) => u = Err("UnauthorizedUndelegate")
            /\ u.err = "" =>
                   /\ c = staking
                   /\ u.delegated[a] = delegated[a] - n
                   /\ c # a => u.balances[a] = balances[a] + n

\* C36: a step that is an Undelegate sent by an address other than the
\* registered one leaves the balances, the delegated amounts and everything
\* else unchanged.
ForeignUndelegateRefused ==
    \/ UNCHANGED vars
    \/ \A c \in Accounts, a \in Users, n \in Amounts :
           (c # staking /\ Undelegate(c, a, n)) => UNCHANGED vars

\* C36: on the token ledger an Undelegate with a positive amount succeeds
\* only when the caller is the registered staking contract; any other caller
\* is rejected with UnauthorizedUndelegate (StakingAddressNotSet when no
\* staking contract is registered), balances and delegated amounts unchanged.
C36_UndelegateCaller == []UndelegateAnswers /\ [][ForeignUndelegateRefused]_vars

\* C36 witness: the staking contract is registered, a1 has delegated tokens
\* and a2 holds a token it could pay with: the Undelegate to a1 is refused to
\* a2 and to a1 itself, and would be accepted from the staking contract.
C36_Witness ==
    /\ staking = StakingContract
    /\ Get(delegated, "a1", 0) > 0
    /\ balances["a2"] > 0
    /\ cw20_undelegate(Ledger, "a2", "a1", 1) = Err("UnauthorizedUndelegate")
    /\ cw20_undelegate(Ledger, "a1", "a1", 1) = Err("UnauthorizedUndelegate")
    /\ cw20_undelegate(Ledger, StakingContract, "a1", 1).err = ""

\* the rewards withdrawn so far, over all accounts
WithdrawnSum ==
    SumOver([a \in Accounts |-> AdjustmentOf(a).withdrawn_rewards], Accounts)

\* the rewards the accounts can withdraw now, over all accounts
WithdrawableSum ==
    SumOver([a \in Accounts |-> query_withdrawable_rewards(a)], Accounts)

\* C37: the accounting of the reward pool: withdrawable_total is
\* distributed_total less the rewards withdrawn by all accounts; the
\* accounts' withdrawable amounts sum to at most withdrawable_total, which
\* the contract's balance above the staked and unbonding tokens covers; the
\* staking contract accepts every account's full withdrawal and
\* withdrawable_total never underflows.
PoolIsSolvent ==
    /\ distribution.withdrawable_total = distribution.distributed_total - WithdrawnSum
    /\ \A a \in Accounts : query_withdrawable_rewards(a) >= 0
    /\ WithdrawableSum <= distribution.withdrawable_total
    /\ distribution.withdrawable_total <= undistributed_rewards
    /\ \A a \in DOMAIN withdraw_adjustment :
           LET w == execute_withdraw_rewards(a, None, None)
           IN  /\ w.err = ""
               /\ "distribution" \in DOMAIN w =>
                      /\ w.distribution.withdrawable_total
                             = distribution.withdrawable_total - query_withdrawable_rewards(a)
                      /\ w.distribution.withdrawable_total
                             >= WithdrawableSum - query_withdrawable_rewards(a)

\* C37: the Transfer of every account's full withdrawal is paid by the token
\* ledger, so that the withdrawal is committed
WithdrawalIsPaid ==
    \A a \in DOMAIN withdraw_adjustment :
        LET w == execute_withdraw_rewards(a, None, None)
        IN  w.err = "" => dispatch(w.msgs, Ledger, TRUE).err = ""

\* C37, as stated: in every reachable state withdrawable_total is
\* distributed_total less the sum of the accounts' withdrawn_rewards and the
\* accounts' withdrawable amounts sum to at most withdrawable_total; hence
\* every account can withdraw its full withdrawable amount whatever the
\* order in which accounts withdraw, and withdrawable_total never underflows.
C37_AsStated == PoolIsSolvent /\ WithdrawalIsPaid

\* C37: the pool's accounting holds throughout, and the token ledger refuses
\* the Transfer of a withdrawal only while a vesting schedule holds tokens
\* of the staking contract's account back.
C37_UnlessVesting ==
    /\ PoolIsSolvent
    /\ Get(vesting, StakingContract, Constant(0)) = Constant(0) => WithdrawalIsPaid
    /\ \A a \in DOMAIN withdraw_adjustment :
           LET w == execute_withdraw_rewards(a, None, None)
           IN  dispatch(w.msgs, Ledger, TRUE).err # ""
                   => /\ dispatch(w.msgs, Ledger, TRUE).err = "CantMoveVestingTokens"
                      /\ value(vesting[StakingContract], now) > 0

\* C37: a1 has been paid its stake back and has one token of rewards to
\* withdraw; the staking contract accepts the withdrawal, but the token
\* ledger refuses the Transfer: a schedule keeps the contract's last token
\* back.
C37_PayoutHeldBack ==
    /\ query_withdrawable_rewards("a1") = 1
    /\ Get(delegated, "a1", 0) = 0
    /\ balances[StakingContract] = 1
    /\ StakingContract \in DOMAIN vesting
    /\ value(vesting[StakingContract], now) = 1
    /\ execute_withdraw_rewards("a1", None, None).err = ""
    /\ dispatch(execute_withdraw_rewards("a1", None, None).msgs, Ledger, TRUE)
           = Err("CantMoveVestingTokens")

\* the value of a storage item after a command with result r
Written(r, item, current) == IF item \in DOMAIN r THEN r[item] ELSE current

\* an accepted command with result r, executed for account a, writes no
\* other account's stake records, claim list, voting power, reward power or
\* withdrawal adjustment, and leaves every other account's withdrawable
\* reward amount as it was
FrameKept(r, a) ==
    r.err = "" =>
        \A b \in Accounts \ {a} :
            /\ Written(r, "stake", stake)[b] = stake[b]
            /\ Written(r, "claims", claims)[b] = claims[b]
            /\ MayLoad(Written(r, "members", members), b) = MayLoad(members, b)
            /\ MayLoad(Written(r, "rewards", rewards), b) = MayLoad(rewards, b)
            /\ MayLoad(Written(r, "withdraw_adjustment", withdraw_adjustment), b)
                   = MayLoad(withdraw_adjustment, b)
            /\ withdrawable_rewards(b, Written(r, "distribution", distribution),
                                    AdjustmentOf(b))
                   = withdrawable_rewards(b, distribution, AdjustmentOf(b))

\* C38: Bond, Unbond, Rebond, Claim, WithdrawRewards (by the owner or by
\* anyone for the owner) and DelegateWithdrawal executed for account A leave
\* every other account's stake records, claim list, voting power, reward
\* power, withdrawal adjustment and withdrawable reward amount unchanged.
C38_Frame ==
    \A a \in Accounts :
        /\ \A n \in Amounts, p \in Periods :
               /\ FrameKept(cw20_delegate(a, n, p), a)
               /\ FrameKept(execute_unbond(a, n, p), a)
               /\ \A q \in Periods : \A r \in execute_rebond(a, n, p, q) : FrameKept(r, a)
        /\ FrameKept(execute_claim(a), a)
        /\ \A r \in {None, Funder} :
               /\ FrameKept(execute_withdraw_rewards(a, None, r), a)
               /\ \A s \in Accounts : FrameKept(execute_withdraw_rewards(s, a, r), a)
        /\ \A d \in Accounts : FrameKept(execute_delegate_withdrawal(a, d), a)

\* C38 witness: both accounts have voting power, reward power and an
\* adjustment, a1 also a matured claim and rewards to withdraw, and a2 is
\* a1's withdrawal delegate: a2's withdrawal for a1 and a1's Claim, Unbond
\* and Rebond are accepted and have records of the other to leave alone.
C38_Witness ==
    /\ \A a \in Users :
           /\ StakeOf(a) > 0
           /\ a \in DOMAIN members
           /\ a \in DOMAIN rewards
           /\ a \in DOMAIN withdraw_adjustment
    /\ query_withdrawable_rewards("a1") > 0
    /\ query_delegated("a1") = "a2"
    /\ execute_withdraw_rewards("a2", "a1", Funder).err = ""
    /\ "distribution" \in DOMAIN execute_withdraw_rewards("a2", "a1", Funder)
    /\ execute_claim("a1").err = ""
    /\ \E n \in Amounts, p \in Periods, q \in Periods :
           /\ execute_unbond("a1", n, p).err = ""
           /\ (\A r \in execute_rebond("a1", n, p, q) : r.err = "")

\* the earliest times at which the tokens an account has under the contract
\* can be paid back if the account moves them no further: free stake of a
\* bucket after the bucket's period, a locked entry after its expiry and the
\* period, a pending claim at its release time
ReleaseTimes(a) ==
    {now + p : p \in {q \in Periods : stake[a][q].stake > 0}}
    \cup UNION {{Max(stake[a][p].locked_tokens[i][1], now) + p :
                    i \in DOMAIN stake[a][p].locked_tokens} : p \in Periods}
    \cup {claims[a][i].release_at : i \in DOMAIN claims[a]}

\* the tokens an account has under the contract: staked or unbonding
Holding(a) == StakeOf(a) + ClaimSum(a)

\* the entire stake of account a is free stake of the bucket of period P: no
\* other bucket holds any, nothing is locked, no claim is pending
EntireStakeFree(a, P) ==
    /\ stake[a][P].stake > 0
    /\ \A p \in Periods :
           /\ stake[a][p].locked_tokens = <<>>
           /\ p # P => stake[a][p].stake = 0
    /\ claims[a] = <<>>

\* C39: with its entire stake free in the bucket of period P, the earliest
\* release of an account is the current time plus P
StartOfLockup ==
    \A a \in Users, P \in Periods : EntireStakeFree(a, P) => ReleaseTimes(a) = {now + P}

\* C39: a step in which the account bonds nothing (a Rebond, an Unbond, a
\* Claim, time passing) brings no token's earliest release before the
\* earliest one of before the step, and a step that pays tokens back to the
\* account (the Undelegate of a Claim) comes at or after that earliest
\* release.
C39_Step ==
    \/ UNCHANGED vars
    \/ \A a \in Users :
           /\ Holding(a)' <= Holding(a) =>
                  \A t2 \in ReleaseTimes(a)' : \E t \in ReleaseTimes(a) : t <= t2
           /\ balances'[a] > balances[a] =>
                  /\ \E t \in ReleaseTimes(a) : t <= now
                  /\ delegated'[a] < delegated[a]

\* C39: a lockup cannot be shortened by rebonding: from a time t0 at which an
\* account's entire stake is free stake of a single bucket of period P, with
\* nothing further bonded, no sequence of its Rebond, Unbond and Claim
\* commands has an Undelegate to the account emitted before t0 + P.
C39_NoShortcut == []StartOfLockup /\ [][C39_Step]_vars

\* C39 witness: at time 3 a1 can claim a token that went from the bucket of
\* period 3 through one of a shorter period (a claim released exactly now,
\* later than that bucket's period after any unbonding at time 0 or 1 would
\* give), while its other token is still locked by a rebond.
C39_Witness ==
    /\ now = 3
    /\ \E i \in DOMAIN claims["a1"] : claims["a1"][i].release_at = 3
    /\ execute_claim("a1").err = ""
    /\ \E p \in Periods : total_locked(stake["a1"][p], now) > 0
    /\ stake["a1"][3] = DefaultBondingInfo

\* C40: the token ledger's delegated amount of every account is the
\* account's stake over all buckets plus its pending claims, and the staking
\* contract's token balance covers all staked and unbonding tokens.
DelegatedIsHeld ==
    /\ \A a \in Accounts : Get(delegated, a, 0) = Holding(a)
    /\ balances[StakingContract] >= total_staked.staked + total_staked.unbonding

\* C40: an account with a matured claim of a positive amount: its Claim is
\* accepted, the Undelegate it emits (recipient the account, amount the sum
\* of the matured claims) is accepted by the token ledger, which pays the
\* account, and no matured claim stays on the list.
MaturedIsReleased ==
    \A a \in Accounts :
        MaturedSum(a, now) > 0 =>
            LET c == execute_claim(a)
                paid == dispatch(c.msgs, Ledger, TRUE)
            IN  /\ c.err = ""
                /\ c.msgs = <<[type |-> "Undelegate", to |-> config.cw20_contract,
                               recipient |-> a, amount |-> MaturedSum(a, now)]>>
                /\ paid.err = ""
                /\ paid.balances[a] = balances[a] + MaturedSum(a, now)
                /\ paid.delegated[a] = delegated[a] - MaturedSum(a, now)
                /\ \A i \in DOMAIN c.claims[a] : c.claims[a][i].release_at > now

\* C40: every accepted Claim has its Undelegate accepted too: whenever the
\* staking contract accepts the Claim, the transaction is committed
ClaimIsPaid ==
    \A a \in Accounts :
        execute_claim(a).err = "" =>
            dispatch(execute_claim(a).msgs, Ledger, TRUE).err = ""

\* C40, as stated: with the token ledger and the staking ledger run
\* together, the delegated amount of every account equals its total stake
\* over all buckets plus its pending claims; the Undelegate emitted by a
\* successful Claim is never rejected by the token ledger, and every claim
\* with a positive amount is released by a Claim issued at or after its
\* maturity.
C40_AsStated == DelegatedIsHeld /\ MaturedIsReleased /\ ClaimIsPaid

\* C40: the token ledger refuses the Undelegate of an accepted Claim only
\* while a vesting schedule holds tokens of the staking contract's account
\* back; the delegated amounts match the stake and the claims throughout.
C40_UnlessVesting ==
    /\ DelegatedIsHeld
    /\ Get(vesting, StakingContract, Constant(0)) = Constant(0)
           => MaturedIsReleased /\ ClaimIsPaid
    /\ \A a \in Accounts :
           (execute_claim(a).err = ""
               /\ dispatch(execute_claim(a).msgs, Ledger, TRUE).err # "")
           => /\ dispatch(execute_claim(a).msgs, Ledger, TRUE).err = "CantMoveVestingTokens"
              /\ value(vesting[StakingContract], now) > 0

\* C40: a1's claim of its two tokens has matured and the staking contract
\* accepts its Claim, but the token ledger refuses the Undelegate: the
\* staking contract holds two tokens, of which a schedule keeps one back
\* (the token it was sent with the schedule has left as a reward).
C40_ClaimHeldBack ==
    /\ MaturedSum("a1", now) = 2
    /\ execute_claim("a1").err = ""
    /\ balances[StakingContract] = 2
    /\ StakingContract \in DOMAIN vesting
    /\ value(vesting[StakingContract], now) = 1
    /\ dispatch(execute_claim("a1").msgs, Ledger, TRUE) = Err("CantMoveVestingTokens")

====
